---------------------------- MODULE Spec2Model ----------------------------
(***************************************************************************)
(* Video Poker (Jacks or Better): the deck and its two shuffles, the       *)
(* commit-reveal fairness functions, the hand evaluator and the pay table, *)
(* the session store and the deal / draw / debug routes.                   *)
(*                                                                         *)
(* JavaScript arrays are 0-based and TLA+ sequences 1-based: the element   *)
(* the code calls a[i] is a[i + 1] here.  A JavaScript string is modelled  *)
(* as the sequence of its one-character strings.                           *)
(***************************************************************************)
EXTENDS Integers, Sequences, FiniteSets, TLC

(***************************************************************************)
(* State.                                                                  *)
(*   env        isKVAvailable and NODE_ENV, fixed when the process starts  *)
(*   now        Date.now(), in milliseconds                                *)
(*   store      the in-memory Map, its pending setTimeout callbacks, and   *)
(*              the key-value store                                        *)
(*   issued     how many hand ids generateHandId has returned              *)
(*   reqs       the draw requests: each one's position, locals and, once   *)
(*              answered, its response                                     *)
(*   deals      what each successful deal answered, by hand id             *)
(*   sent       the last response of the deal and debug routes             *)
(*   sh, fair   the state of the shuffle and commitment harnesses          *)
(*   ev         the hand handed to the evaluator and what it returned      *)
(*   pay        the rank and bet handed to the pay table and its answers   *)
(*   strat      the strategy engine's calculateEV: its locals and totals   *)
(***************************************************************************)
VARIABLES env, now, store, issued, reqs, deals, sent, sh, fair, ev, pay, strat

vars == <<env, now, store, issued, reqs, deals, sent, sh, fair, ev, pay, strat>>

(***************************************************************************)
(* Numbers.  A JavaScript number is an IEEE-754 double; the values the     *)
(* shuffle computes are non-negative integers below 2^66, kept here as     *)
(* six base-2^11 limbs,    least significant first, so that no             *)
(* intermediate value leaves the range of the model checker's integers.    *)
(***************************************************************************)
LimbBase == 2 ^ 11
MantissaBits == 53

RECURSIVE Carry(_, _, _)
Carry(s, i, c) ==
    IF i > Len(s) THEN <<>>
    ELSE LET v == s[i] + c
         IN  <<v % LimbBase>> \o Carry(s, i + 1, v \div LimbBase)

\* the limbs of a non-negative integer below 2^31
BigFromInt(n) == Carry(<<n, 0, 0, 0, 0, 0>>, 1, 0)

\* the integer of limbs whose value is below 2^31
BigToInt(a) == a[1] + a[2] * LimbBase + a[3] * LimbBase * LimbBase

RECURSIVE ColumnSum(_, _, _, _)
ColumnSum(a, b, k, i) ==
    IF i > k THEN 0 ELSE a[i] * b[k + 1 - i] + ColumnSum(a, b, k, i + 1)

\* exact product, for factors of at most three limbs each
BigMul(a, b) ==
    Carry(<<ColumnSum(a, b, 1, 1), ColumnSum(a, b, 2, 1), ColumnSum(a, b, 3, 1),
            ColumnSum(a, b, 4, 1), ColumnSum(a, b, 5, 1), ColumnSum(a, b, 6, 1)>>, 1, 0)

\* exact sum with a non-negative integer below 2^30
BigAddInt(a, n) == Carry(<<a[1] + n, a[2], a[3], a[4], a[5], a[6]>>, 1, 0)

RECURSIVE BitLen(_)
BitLen(n) == IF n = 0 THEN 0 ELSE 1 + BitLen(n \div 2)

LimbBits == BitLen(LimbBase) - 1

RECURSIVE TopLimb(_, _)
TopLimb(a, k) == IF k = 0 \/ a[k] # 0 THEN k ELSE TopLimb(a, k - 1)

BigBitLen(a) ==
    LET t == TopLimb(a, Len(a))
    IN  IF t = 0 THEN 0 ELSE LimbBits * (t - 1) + BitLen(a[t])

\* The double nearest to the integer a (round to nearest, ties to even):
\* what every JavaScript arithmetic operator returns for the exact result a.
RoundToDouble(a) ==
    LET e == BigBitLen(a)
        q == e - MantissaBits
    IN  IF q <= 0 THEN a
        ELSE LET unit == 2 ^ q
                 low  == a[1] % unit
                 half == unit \div 2
                 odd  == IF q = LimbBits THEN a[2] % 2 = 1
                         ELSE (a[1] \div unit) % 2 = 1
                 up   == low > half \/ (low = half /\ odd)
             IN  Carry(<<a[1] - low + (IF up THEN unit ELSE 0),
                         a[2], a[3], a[4], a[5], a[6]>>, 1, 0)

\* a mod 2^32 and a mod 2^31, as limbs
Mod2p32(a) == <<a[1], a[2], a[3] % 2 ^ 10, 0, 0, 0>>
Mod2p31(a) == <<a[1], a[2], a[3] % 2 ^ 9, 0, 0, 0>>

\* (2^32 - a) mod 2^32, for a below 2^32
Neg32(a) ==
    Mod2p32(Carry(<<LimbBase - a[1], LimbBase - 1 - a[2], 2 ^ 10 - 1 - a[3],
                    0, 0, 0>>, 1, 0))

\* a signed 32-bit integer is kept as its residue mod 2^32
IsNegative32(a) == a[3] >= 2 ^ 9

(***************************************************************************)
(* Strings and characters.                                                 *)
(***************************************************************************)
HexChars == <<"0", "1", "2", "3", "4", "5", "6", "7", "8", "9",
              "a", "b", "c", "d", "e", "f">>

\* String.prototype.charCodeAt for the characters of a shuffle key
charCodeAt(ch) ==
    CASE ch = "0" -> 48 [] ch = "1" -> 49 [] ch = "2" -> 50 [] ch = "3" -> 51
      [] ch = "4" -> 52 [] ch = "5" -> 53 [] ch = "6" -> 54 [] ch = "7" -> 55
      [] ch = "8" -> 56 [] ch = "9" -> 57 [] ch = ":" -> 58
      [] ch = "a" -> 97 [] ch = "b" -> 98 [] ch = "c" -> 99 [] ch = "d" -> 100
      [] ch = "e" -> 101 [] ch = "f" -> 102

\* the decimal rendering `${n}` of a non-negative integer
RECURSIVE NumberToString(_)
NumberToString(n) ==
    IF n < 10 THEN <<HexChars[n + 1]>>
    ELSE NumberToString(n \div 10) \o <<HexChars[(n % 10) + 1]>>

(***************************************************************************)
(* Cards and the deck.                                                     *)
(***************************************************************************)
SUITS == <<"hearts", "diamonds", "clubs", "spades">>
RANKS == <<"2", "3", "4", "5", "6", "7", "8", "9", "10", "J", "Q", "K", "A">>

\* the card pushed when the counter is idCounter (0..51); its id, the text
\* `${suit}-${rank}-${idCounter}`, is kept as the counter that tells it apart
DeckCard(idCounter) ==
    LET suit == SUITS[(idCounter \div Len(RANKS)) + 1]
        rank == RANKS[(idCounter % Len(RANKS)) + 1]
    IN  [suit |-> suit, rank |-> rank, id |-> idCounter]

RECURSIVE PushCards(_)
PushCards(idCounter) ==
    IF idCounter < Len(SUITS) * Len(RANKS)
    THEN <<DeckCard(idCounter)>> \o PushCards(idCounter + 1)
    ELSE <<>>

createDeck == PushCards(0)

\* [deckCopy[i], deckCopy[j]] = [deckCopy[j], deckCopy[i]], i and j 0-based
SwapStale(deckCopy, i, j) ==
    [deckCopy EXCEPT ![i + 1] = deckCopy[j + 1]]

Swap(deckCopy, i, j) ==
    [deckCopy EXCEPT ![i + 1] = deckCopy[j + 1], ![j + 1] = deckCopy[i + 1]]

(***************************************************************************)
(* The seed-reproducible shuffle.                                          *)
(***************************************************************************)
LcgMultiplier == 1103515245
LcgIncrement == 12345

\* seedNum = ((seedNum << 5) - seedNum + seed.charCodeAt(i)) | 0
FoldChar(seedNum, code) ==
    LET shifted == Mod2p32(BigMul(seedNum, BigFromInt(2 ^ 5)))
        negated == Neg32(seedNum)
        minus   == Mod2p32(Carry(<<shifted[1] + negated[1], shifted[2] + negated[2],
                                   shifted[3] + negated[3], 0, 0, 0>>, 1, 0))
    IN  Mod2p32(BigAddInt(minus, code))

\* the loop over the characters of the seed, from the locals f on
RECURSIVE FoldLoop(_, _)
FoldLoop(seed, f) ==
    IF f.i < Len(seed)
    THEN FoldLoop(seed, [seedNum |-> FoldChar(f.seedNum, charCodeAt(seed[f.i + 1])),
                         i       |-> f.i + 1])
    ELSE f.seedNum

FoldSeed(seed, i, seedNum) == FoldLoop(seed, [seedNum |-> seedNum, i |-> i])

\* Math.abs of a signed 32-bit value: 0 .. 2^31
MathAbs(seedNum) == IF IsNegative32(seedNum) THEN Neg32(seedNum) ELSE seedNum

\* seedNum = (seedNum * 1103515245 + 12345) & 0x7fffffff: the product and
\* the sum are doubles, each rounded; the mask keeps the low 31 bits.
LcgNext(seedNum) ==
    LET product == RoundToDouble(BigMul(seedNum, BigFromInt(LcgMultiplier)))
        sum     == RoundToDouble(BigAddInt(product, LcgIncrement))
    IN  Mod2p31(sum)

\* one iteration of the Fisher-Yates loop, at index st.i (0-based)
ShuffleStep(st) ==
    LET next == LcgNext(st.seedNum)
        j    == BigToInt(next) % (st.i + 1)
    IN  [deckCopy |-> Swap(st.deckCopy, st.i, j), seedNum |-> next, i |-> st.i - 1]

RECURSIVE ShuffleLoop(_)
ShuffleLoop(st) == IF st.i > 0 THEN ShuffleLoop(ShuffleStep(st)) ELSE st.deckCopy

\* the locals when seedNum is not reset but left over from the last call
ShuffleStartStale(deck, seed) ==
    [deckCopy |-> deck,
     seedNum  |-> MathAbs(FoldSeed(seed, 0, sh.st.seedNum)),
     i        |-> Len(deck) - 1]

\* the locals of seededShuffleDeck when its Fisher-Yates loop starts
ShuffleStart(deck, seed) ==
    [deckCopy |-> deck,
     seedNum  |-> MathAbs(FoldSeed(seed, 0, BigFromInt(0))),
     i        |-> Len(deck) - 1]

seededShuffleDeck(deck, seed) == ShuffleLoop(ShuffleStart(deck, seed))

(***************************************************************************)
(* The hand evaluator.                                                     *)
(***************************************************************************)
getRankValue(rank) ==
    CASE rank = "2" -> 2 [] rank = "3" -> 3 [] rank = "4" -> 4 [] rank = "5" -> 5
      [] rank = "6" -> 6 [] rank = "7" -> 7 [] rank = "8" -> 8 [] rank = "9" -> 9
      [] rank = "10" -> 10 [] rank = "J" -> 11 [] rank = "Q" -> 12
      [] rank = "K" -> 13 [] rank = "A" -> 14

\* the place of a rank in the order Array.prototype.sort() gives strings
\* (UTF-16 code units): "10" < "2" < ... < "9" < "A" < "J" < "K" < "Q"
StringOrder(rank) ==
    CASE rank = "10" -> 1 [] rank = "2" -> 2 [] rank = "3" -> 3 [] rank = "4" -> 4
      [] rank = "5" -> 5 [] rank = "6" -> 6 [] rank = "7" -> 7 [] rank = "8" -> 8
      [] rank = "9" -> 9 [] rank = "A" -> 10 [] rank = "J" -> 11
      [] rank = "K" -> 12 [] rank = "Q" -> 13

\* the rank at a place of that order
StringAt(place) ==
    <<"10", "2", "3", "4", "5", "6", "7", "8", "9", "A", "J", "K", "Q">>[place]

\* insertion of the integer x into the ascending sequence s
RECURSIVE InsertSorted(_, _)
InsertSorted(s, x) ==
    IF s = <<>> THEN <<x>>
    ELSE IF x < Head(s) THEN <<x>> \o s
    ELSE <<Head(s)>> \o InsertSorted(Tail(s), x)

RECURSIVE SortAscending(_)
SortAscending(s) ==
    IF s = <<>> THEN <<>> ELSE InsertSorted(SortAscending(Tail(s)), Head(s))

Reverse(s) == [k \in 1..Len(s) |-> s[Len(s) + 1 - k]]

\* array.sort() of rank strings
SortStrings(ranks) ==
    LET places == SortAscending([k \in 1..Len(ranks) |-> StringOrder(ranks[k])])
    IN  [k \in 1..Len(places) |-> StringAt(places[k])]

SeqToSet(s) == {s[k] : k \in 1..Len(s)}

checkFlush(hand) == \A k \in 1..Len(hand) : hand[k].suit = hand[1].suit

\* a check that knows the run of consecutive values only
checkStraightNoWheel(hand) ==
    LET values == SortAscending([k \in 1..Len(hand) |-> getRankValue(hand[k].rank)])
    IN  \A k \in 2..Len(values) : values[k] = values[k - 1] + 1

\* a check that reads the values in the order of the hand
checkStraightUnsorted(hand) ==
    LET values == [k \in 1..Len(hand) |-> getRankValue(hand[k].rank)]
        isRegularStraight == \A k \in 2..Len(values) : values[k] = values[k - 1] + 1
        ranks == SortStrings([k \in 1..Len(hand) |-> hand[k].rank])
    IN  isRegularStraight \/ ranks = <<"2", "3", "4", "5", "A">>

checkStraight(hand) ==
    LET values == SortAscending([k \in 1..Len(hand) |-> getRankValue(hand[k].rank)])
        isRegularStraight == \A k \in 2..Len(values) : values[k] = values[k - 1] + 1
        ranks == SortStrings([k \in 1..Len(hand) |-> hand[k].rank])
    IN  isRegularStraight \/ ranks = <<"2", "3", "4", "5", "A">>

\* getRankCounts: the number of cards of each rank of the hand
RankCount(hand, rank) == Cardinality({k \in 1..Len(hand) : hand[k].rank = rank})

\* Object.keys of the counts object: the integer-like keys ("2" .. "10") in
\* ascending numeric order, then the other keys in the order they were first set
RECURSIVE FirstSeen(_, _)
FirstSeen(hand, k) ==
    IF k > Len(hand) THEN <<>>
    ELSE LET rank == hand[k].rank
         IN  IF getRankValue(rank) <= 10 \/ \E m \in 1..(k - 1) : hand[m].rank = rank
             THEN FirstSeen(hand, k + 1)
             ELSE <<rank>> \o FirstSeen(hand, k + 1)

ObjectKeys(hand) ==
    SelectSeq(RANKS, LAMBDA rank : getRankValue(rank) <= 10 /\ RankCount(hand, rank) > 0)
        \o FirstSeen(hand, 1)

\* Object.keys(rankCounts).find(rank => rankCounts[rank] === n && rank in
\* among), as a sequence of at most one rank
FindKey(hand, n, among) ==
    LET found == SelectSeq(ObjectKeys(hand),
                           LAMBDA rank : RankCount(hand, rank) = n /\ rank \in among)
    IN  IF found = <<>> THEN <<>> ELSE <<Head(found)>>

hasRank(hand, rank) == \E k \in 1..Len(hand) : hand[k].rank = rank

HighRanks == {"J", "Q", "K", "A"}

\* evaluateHand for a hand of 5 cards (any other length throws, see Draw)
evaluateHand(hand) ==
    LET isFlush    == checkFlush(hand)
        isStraight == checkStraight(hand)
        keys       == ObjectKeys(hand)
        counts     == Reverse(SortAscending([k \in 1..Len(keys) |-> RankCount(hand, keys[k])]))
        count0     == IF Len(counts) >= 1 THEN counts[1] ELSE 0
        count1     == IF Len(counts) >= 2 THEN counts[2] ELSE 0
        pairRank   == FindKey(hand, 2, SeqToSet(RANKS))
    IN  IF isFlush /\ isStraight /\ hasRank(hand, "A") /\ hasRank(hand, "K")
          THEN "ROYAL_FLUSH"
        ELSE IF isFlush /\ isStraight THEN "STRAIGHT_FLUSH"
        ELSE IF count0 = 4 THEN "FOUR_OF_A_KIND"
        ELSE IF count0 = 3 /\ count1 = 2 THEN "FULL_HOUSE"
        ELSE IF isFlush THEN "FLUSH"
        ELSE IF isStraight THEN "STRAIGHT"
        ELSE IF count0 = 3 THEN "THREE_OF_A_KIND"
        ELSE IF count0 = 2 /\ count1 = 2 THEN "TWO_PAIR"
        ELSE IF count0 = 2 /\ pairRank # <<>> /\ pairRank[1] \in HighRanks
          THEN "JACKS_OR_BETTER"
        ELSE "NOTHING"

\* the 0-based indices of the cards whose rank is in ranks, ascending
IndicesOfRanks(hand, ranks) ==
    LET RECURSIVE Walk(_)
        Walk(k) == IF k > Len(hand) THEN <<>>
                   ELSE (IF hand[k].rank \in ranks THEN <<k - 1>> ELSE <<>>) \o Walk(k + 1)
    IN  Walk(1)

\* the indices with only the first of the two pairs marked
getWinningCardIndicesFirstPair(hand, handRank) ==
    IF handRank = "NOTHING" THEN <<>>
    ELSE IF handRank \in {"ROYAL_FLUSH", "STRAIGHT_FLUSH", "FLUSH", "STRAIGHT", "FULL_HOUSE"}
      THEN <<0, 1, 2, 3, 4>>
    ELSE IF handRank = "FOUR_OF_A_KIND"
      THEN IndicesOfRanks(hand, SeqToSet(FindKey(hand, 4, SeqToSet(RANKS))))
    ELSE IF handRank = "THREE_OF_A_KIND"
      THEN IndicesOfRanks(hand, SeqToSet(FindKey(hand, 3, SeqToSet(RANKS))))
    ELSE IF handRank = "TWO_PAIR"
      THEN IndicesOfRanks(hand, SeqToSet(FindKey(hand, 2, SeqToSet(RANKS))))
    ELSE IndicesOfRanks(hand, SeqToSet(FindKey(hand, 2, HighRanks)))

getWinningCardIndices(hand, handRank) ==
    IF handRank = "NOTHING" THEN <<>>
    ELSE IF handRank \in {"ROYAL_FLUSH", "STRAIGHT_FLUSH", "FLUSH", "STRAIGHT"}
      THEN <<0, 1, 2, 3, 4>>
    ELSE IF handRank = "FOUR_OF_A_KIND"
      THEN IndicesOfRanks(hand, SeqToSet(FindKey(hand, 4, SeqToSet(RANKS))))
    ELSE IF handRank = "FULL_HOUSE" THEN <<0, 1, 2, 3, 4>>
    ELSE IF handRank = "THREE_OF_A_KIND"
      THEN IndicesOfRanks(hand, SeqToSet(FindKey(hand, 3, SeqToSet(RANKS))))
    ELSE IF handRank = "TWO_PAIR"
      THEN IndicesOfRanks(hand, {rank \in SeqToSet(ObjectKeys(hand)) : RankCount(hand, rank) = 2})
    ELSE IF handRank = "JACKS_OR_BETTER"
      THEN IndicesOfRanks(hand, SeqToSet(FindKey(hand, 2, HighRanks)))
    ELSE <<>>

(***************************************************************************)
(* The pay table.                                                          *)
(***************************************************************************)
\* a table that pays the royal flush alike at every bet
getMultiplierFlat(rank, bet) ==
    CASE rank = "ROYAL_FLUSH" -> 250
      [] rank = "STRAIGHT_FLUSH" -> 50
      [] rank = "FOUR_OF_A_KIND" -> 25
      [] rank = "FULL_HOUSE" -> 9
      [] rank = "FLUSH" -> 6
      [] rank = "STRAIGHT" -> 4
      [] rank = "THREE_OF_A_KIND" -> 3
      [] rank = "TWO_PAIR" -> 2
      [] rank = "JACKS_OR_BETTER" -> 1
      [] rank = "NOTHING" -> 0

getMultiplier(rank, bet) ==
    IF rank = "ROYAL_FLUSH" /\ bet = 5 THEN 800
    ELSE CASE rank = "ROYAL_FLUSH" -> 250
           [] rank = "STRAIGHT_FLUSH" -> 50
           [] rank = "FOUR_OF_A_KIND" -> 25
           [] rank = "FULL_HOUSE" -> 9
           [] rank = "FLUSH" -> 6
           [] rank = "STRAIGHT" -> 4
           [] rank = "THREE_OF_A_KIND" -> 3
           [] rank = "TWO_PAIR" -> 2
           [] rank = "JACKS_OR_BETTER" -> 1
           [] rank = "NOTHING" -> 0

calculatePayout(rank, bet) ==
    LET multiplier == getMultiplier(rank, bet)
    IN  [rank |-> rank, multiplier |-> multiplier, payout |-> multiplier * bet,
         winningCardIndices |-> <<>>]

getHandName(rank) ==
    CASE rank = "ROYAL_FLUSH" -> "Royal Flush"
      [] rank = "STRAIGHT_FLUSH" -> "Straight Flush"
      [] rank = "FOUR_OF_A_KIND" -> "Four of a Kind"
      [] rank = "FULL_HOUSE" -> "Full House"
      [] rank = "FLUSH" -> "Flush"
      [] rank = "STRAIGHT" -> "Straight"
      [] rank = "THREE_OF_A_KIND" -> "Three of a Kind"
      [] rank = "TWO_PAIR" -> "Two Pair"
      [] rank = "JACKS_OR_BETTER" -> "Jacks or Better"
      [] rank = "NOTHING" -> "No Win"

\* the pay table for display
getPayTable ==
    << [hand |-> "Royal Flush",     payouts |-> <<250, 500, 750, 1000, 4000>>],
       [hand |-> "Straight Flush",  payouts |-> <<50, 100, 150, 200, 250>>],
       [hand |-> "Four of a Kind",  payouts |-> <<25, 50, 75, 100, 125>>],
       [hand |-> "Full House",      payouts |-> <<9, 18, 27, 36, 45>>],
       [hand |-> "Flush",           payouts |-> <<6, 12, 18, 24, 30>>],
       [hand |-> "Straight",        payouts |-> <<4, 8, 12, 16, 20>>],
       [hand |-> "Three of a Kind", payouts |-> <<3, 6, 9, 12, 15>>],
       [hand |-> "Two Pair",        payouts |-> <<2, 4, 6, 8, 10>>],
       [hand |-> "Jacks or Better", payouts |-> <<1, 2, 3, 4, 5>>] >>

\* the pay table printed in the README
ReadmePayTable ==
    << [hand |-> "Royal Flush",     payouts |-> <<250, 500, 750, 1000, 4000>>],
       [hand |-> "Straight Flush",  payouts |-> <<50, 100, 150, 200, 250>>],
       [hand |-> "Four of a Kind",  payouts |-> <<25, 50, 75, 100, 125>>],
       [hand |-> "Full House",      payouts |-> <<9, 18, 27, 36, 45>>],
       [hand |-> "Flush",           payouts |-> <<6, 12, 18, 24, 30>>],
       [hand |-> "Straight",        payouts |-> <<4, 8, 12, 16, 20>>],
       [hand |-> "Three of a Kind", payouts |-> <<3, 6, 9, 12, 15>>],
       [hand |-> "Two Pair",        payouts |-> <<2, 4, 6, 8, 10>>],
       [hand |-> "Jacks or Better", payouts |-> <<1, 2, 3, 4, 5>>] >>

\* what a table shows for a hand name under the column of a bet:
\* row.payouts[betIndex] with betIndex + 1 = bet, if there is such a cell
Cell(table, hand, bet) ==
    LET rows == SelectSeq(table, LAMBDA row : row.hand = hand)
    IN  IF rows = <<>> \/ bet \notin 1..Len(rows[1].payouts)
        THEN <<>>
        ELSE <<rows[1].payouts[bet]>>

\* the multipliers of a bet below the maximum
PayTableBelowMaximum ==
    [ROYAL_FLUSH |-> 250, STRAIGHT_FLUSH |-> 50, FOUR_OF_A_KIND |-> 25, FULL_HOUSE |-> 9,
     FLUSH |-> 6, STRAIGHT |-> 4, THREE_OF_A_KIND |-> 3, TWO_PAIR |-> 2,
     JACKS_OR_BETTER |-> 1, NOTHING |-> 0]

(***************************************************************************)
(* The strategy engine.  A card code such as "10H" is kept as the pair of  *)
(* its rank and its suit letter.                                           *)
(***************************************************************************)
PAY_TABLE ==
    [ROYAL_FLUSH |-> 800, STRAIGHT_FLUSH |-> 50, FOUR_OF_A_KIND |-> 25, FULL_HOUSE |-> 9,
     FLUSH |-> 6, STRAIGHT |-> 4, THREE_OF_A_KIND |-> 3, TWO_PAIR |-> 2,
     JACKS_OR_BETTER |-> 1, NOTHING |-> 0]

SuitLetters == <<"H", "D", "C", "S">>

\* parseCard: rank = cardStr.slice(0, -1), suit = suitMap[cardStr.slice(-1)]
parseCard(cardStr) ==
    LET place == CHOOSE n \in 1..Len(SuitLetters) : SuitLetters[n] = cardStr[2]
    IN  [rank |-> cardStr[1], suit |-> SUITS[place], id |-> cardStr]

cardToString(card) ==
    LET place == CHOOSE n \in 1..Len(SUITS) : SUITS[n] = card.suit
    IN  <<card.rank, SuitLetters[place]>>

\* suit[0], the first character of the name of a suit
SuitInitials == <<"h", "d", "c", "s">>

\* generateDeck: for each suit, for each rank, the card with id `${rank}${suit[0]}`
generateDeck ==
    [n \in 1..(Len(SUITS) * Len(RANKS)) |->
        LET suit == ((n - 1) \div Len(RANKS)) + 1
            rank == ((n - 1) % Len(RANKS)) + 1
        IN  [rank |-> RANKS[rank], suit |-> SUITS[suit],
             id |-> <<RANKS[rank], SuitInitials[suit]>>]]

\* function* combinations(array, k), as the sequence of what it yields
RECURSIVE combinations(_, _)
combinations(array, k) ==
    IF k = 0 THEN << <<>> >>
    ELSE IF k > Len(array) THEN <<>>
    ELSE LET RECURSIVE Loop(_)
             Loop(i) ==
                 IF i <= Len(array) - k
                 THEN LET rest == combinations(SubSeq(array, i + 2, Len(array)), k - 1)
                      IN  [m \in 1..Len(rest) |-> <<array[i + 1]>> \o rest[m]] \o Loop(i + 1)
                 ELSE <<>>
         IN  Loop(0)

\* the remaining deck with every card of the hand taken out
RemainingDeckWithoutHand(hand, holdIndices) ==
    LET handStrings == {cardToString(hand[k]) : k \in 1..Len(hand)}
    IN  SelectSeq(generateDeck, LAMBDA card : cardToString(card) \notin handStrings)

\* calculateEV: remainingDeck, the deck without the held cards
RemainingDeck(hand, holdIndices) ==
    LET heldCards   == [k \in 1..Len(holdIndices) |-> hand[holdIndices[k] + 1]]
        heldStrings == {cardToString(heldCards[k]) : k \in 1..Len(heldCards)}
    IN  SelectSeq(generateDeck, LAMBDA card : cardToString(card) \notin heldStrings)

\* calculateEV: the final hand of a draw
FinalHand(hand, holdIndices, drawnCards) ==
    LET RECURSIVE Push(_, _)
        Push(i, drawnIndex) ==
            IF i < 5
            THEN IF i \in SeqToSet(holdIndices)
                 THEN <<hand[i + 1]>> \o Push(i + 1, drawnIndex)
                 ELSE <<drawnCards[drawnIndex + 1]>> \o Push(i + 1, drawnIndex + 1)
            ELSE <<>>
    IN  Push(0, 0)

\* analyzeHand: the holdIndices of a mask, the i with mask & (1 << i)
HoldIndicesOf(mask) ==
    SelectSeq(<<0, 1, 2, 3, 4>>, LAMBDA i : (mask \div (2 ^ i)) % 2 = 1)

\* the strategy engine's own getHandName
getHandNameOfStrategy(rank) ==
    CASE rank = "ROYAL_FLUSH" -> "Royal Flush"
      [] rank = "STRAIGHT_FLUSH" -> "Straight Flush"
      [] rank = "FOUR_OF_A_KIND" -> "Four of a Kind"
      [] rank = "FULL_HOUSE" -> "Full House"
      [] rank = "FLUSH" -> "Flush"
      [] rank = "STRAIGHT" -> "Straight"
      [] rank = "THREE_OF_A_KIND" -> "Three of a Kind"
      [] rank = "TWO_PAIR" -> "Two Pair"
      [] rank = "JACKS_OR_BETTER" -> "High Pair"
      [] rank = "NOTHING" -> "Nothing"

\* Object.keys(PAY_TABLE), the order in which outcomeCounts is filled and
\* forEach visits it
PayTableKeys ==
    <<"ROYAL_FLUSH", "STRAIGHT_FLUSH", "FOUR_OF_A_KIND", "FULL_HOUSE", "FLUSH",
      "STRAIGHT", "THREE_OF_A_KIND", "TWO_PAIR", "JACKS_OR_BETTER", "NOTHING">>

\* a TypeError: a property of undefined was read
TypeError == [threw |-> "TypeError", message |-> "Cannot read properties of undefined"]

\* the Error of evaluateHand
HandSizeError == [threw |-> "Error", message |-> "Hand must contain exactly 5 cards"]

\* calculateEV(hand, holdIndices), the loop run to its end: the counts of the
\* ranks of the final hands and the totals; ev is kept as the fraction
\* totalPayout / totalCombinations.  cardToString of a position the hand does
\* not have throws.
calculateEV(hand, holdIndices) ==
    IF \E i \in SeqToSet(holdIndices) : i >= Len(hand) THEN TypeError
    ELSE LET draws  == combinations(RemainingDeck(hand, holdIndices), 5 - Len(holdIndices))
             ranked == {<<m, evaluateHand(FinalHand(hand, holdIndices, draws[m]))>> :
                            m \in 1..Len(draws)}
             outcomeCounts == [rank \in SeqToSet(PayTableKeys) |->
                                  Cardinality({final \in ranked : final[2] = rank})]
             Times(rank) == PAY_TABLE[rank] * outcomeCounts[rank]
             totalPayout ==
                 Times("ROYAL_FLUSH") + Times("STRAIGHT_FLUSH") + Times("FOUR_OF_A_KIND")
                   + Times("FULL_HOUSE") + Times("FLUSH") + Times("STRAIGHT")
                   + Times("THREE_OF_A_KIND") + Times("TWO_PAIR")
                   + Times("JACKS_OR_BETTER") + Times("NOTHING")
             totalCombinations == Len(draws)
         IN  [threw |-> "",
              ev |-> IF totalCombinations > 0
                     THEN [num |-> totalPayout, den |-> totalCombinations]
                     ELSE [num |-> 0, den |-> 1],
              outcomeCounts |-> outcomeCounts, totalCombinations |-> totalCombinations]

\* outcomeCounts.forEach over the ranks from place on: the first rank whose
\* count exceeds maxCount wins it, NOTHING left out or not
RECURSIVE MostLikelyFrom(_, _, _, _, _)
MostLikelyFrom(outcomeCounts, place, maxCount, mostLikely, skipNothing) ==
    IF place > Len(PayTableKeys) THEN [maxCount |-> maxCount, mostLikely |-> mostLikely]
    ELSE LET rank  == PayTableKeys[place]
             count == outcomeCounts[rank]
         IN  IF count > maxCount /\ ~(skipNothing /\ rank = "NOTHING")
             THEN MostLikelyFrom(outcomeCounts, place + 1, count, rank, skipNothing)
             ELSE MostLikelyFrom(outcomeCounts, place + 1, maxCount, mostLikely, skipNothing)

\* the most frequent rank of all, NOTHING among them
getMostLikelyOutcomeOverall(outcomeCounts) ==
    MostLikelyFrom(outcomeCounts, 1, 0, "NOTHING", FALSE).mostLikely

FirstPass(outcomeCounts) == MostLikelyFrom(outcomeCounts, 1, 0, "NOTHING", TRUE)

getMostLikelyOutcome(outcomeCounts) ==
    LET first == FirstPass(outcomeCounts)
    IN  IF first.mostLikely = "NOTHING"
        THEN MostLikelyFrom(outcomeCounts, 1, first.maxCount, "NOTHING", FALSE).mostLikely
        ELSE first.mostLikely

\* generateExplanation: the text, or the Error of evaluateHand when all five
\* positions are held and the hand is not of five cards
generateExplanation(holdIndices, mostLikely, hand) ==
    IF Len(holdIndices) = 0
      THEN [threw |-> "", text |-> <<"Draw 5 new cards for best chance at a winning hand">>]
    ELSE IF Len(holdIndices) = 5
      THEN IF Len(hand) # 5 THEN HandSizeError
           ELSE [threw |-> "",
                 text |-> <<"Keep your",
                            <<"toLowerCase", getHandNameOfStrategy(evaluateHand(hand))>> >>]
    ELSE LET heldCards == [k \in 1..Len(holdIndices) |-> hand[holdIndices[k] + 1]]
             pairs     == SelectSeq(heldCards, LAMBDA card : RankCount(heldCards, card.rank) = 2)
             suits     == {heldCards[k].suit : k \in 1..Len(heldCards)}
             text ==
                 IF pairs # <<>>
                   THEN IF pairs[1].rank \in HighRanks
                        THEN <<"Hold high pair, draw 3 for improved hand">>
                        ELSE <<"Hold low pair, draw 3 for potential three/four of a kind">>
                 ELSE IF Cardinality(suits) = 1 /\ Len(holdIndices) = 4
                   THEN <<"Hold 4-card flush draw for 19.1% chance of flush">>
                 ELSE IF Len(holdIndices) = 4
                   THEN <<"Hold straight draw or high cards for multiple winning paths">>
                 ELSE IF \A k \in 1..Len(heldCards) : heldCards[k].rank \in HighRanks
                   THEN <<"Hold high cards for pair potential">>
                 ELSE <<"Draw", 5 - Len(holdIndices), "cards for",
                        getHandNameOfStrategy(mostLikely)>>
         IN  [threw |-> "", text |-> text]

\* parseFloat(x.toFixed(digits)) of the fraction x scaled by scale, as the
\* number of units of 10^-digits: the nearest, the half upwards (no fraction
\* of the model lies within a rounding error of a half)
ToFixed(fraction, scale, unit) ==
    (2 * fraction.num * scale * unit + fraction.den) \div (2 * fraction.den)

\* an insertion in front of those that compare equal
RECURSIVE InsertStrategyInFront(_, _)
InsertStrategyInFront(sorted, strategy) ==
    IF sorted = <<>> THEN <<strategy>>
    ELSE IF strategy.ev >= Head(sorted).ev THEN <<strategy>> \o sorted
    ELSE <<Head(sorted)>> \o InsertStrategyInFront(Tail(sorted), strategy)

\* a descending sort that is not stable
RECURSIVE SortStrategiesUnstable(_)
SortStrategiesUnstable(strategies) ==
    IF strategies = <<>> THEN <<>>
    ELSE InsertStrategyInFront(
             SortStrategiesUnstable(SubSeq(strategies, 1, Len(strategies) - 1)),
             strategies[Len(strategies)])

\* the insertion of a strategy behind those that compare equal
RECURSIVE InsertStrategy(_, _)
InsertStrategy(sorted, strategy) ==
    IF sorted = <<>> THEN <<strategy>>
    ELSE IF strategy.ev > Head(sorted).ev THEN <<strategy>> \o sorted
    ELSE <<Head(sorted)>> \o InsertStrategy(Tail(sorted), strategy)

\* strategies.sort((a, b) => b.ev - a.ev): descending, stable
RECURSIVE SortStrategies(_)
SortStrategies(strategies) ==
    IF strategies = <<>> THEN <<>>
    ELSE InsertStrategy(SortStrategies(SubSeq(strategies, 1, Len(strategies) - 1)),
                        strategies[Len(strategies)])

\* strategies.slice(0, 3)
TopThree(strategies) == SubSeq(strategies, 1, IF Len(strategies) < 3 THEN Len(strategies) ELSE 3)

(***************************************************************************)
(* Provably fair commitment.  SHA-256 is kept symbolic: the digest of a    *)
(* message is a value that determines the message (no collisions).         *)
(***************************************************************************)
Sha256Hex(message) == <<"sha256", message>>

\* the commitment of the seed and the nonce run together
createSeedCommitmentUnseparated(seed, nonce) ==
    Sha256Hex(seed \o NumberToString(nonce))

createSeedCommitment(seed, nonce) ==
    LET combined == seed \o <<":">> \o NumberToString(nonce)
    IN  Sha256Hex(combined)

\* the shuffle key without the nonce
combineSeedOnly(seed, nonce) == seed \o <<":">>

combineSeedAndNonce(seed, nonce) == seed \o <<":">> \o NumberToString(nonce)

verifySeedCommitment(seed, nonce, commitment) ==
    LET calculatedCommitment == createSeedCommitment(seed, nonce)
    IN  calculatedCommitment = commitment

(***************************************************************************)
(* The seeds and nonces the model draws: generateSeed returns the hex text *)
(* of 32 random bytes and generateNonce a non-negative integer.  The       *)
(* shuffles of the keys they give are computed once.                       *)
(***************************************************************************)
SeedByteCount == 32
MaxNonce == 1
FairLen == 2

RECURSIVE Repeat(_, _)
Repeat(str, n) == IF n = 0 THEN <<>> ELSE str \o Repeat(str, n - 1)

RECURSIVE StringsOfLength(_, _)
StringsOfLength(chars, n) ==
    IF n = 0 THEN {<<>>}
    ELSE {<<c>> \o t : c \in chars, t \in StringsOfLength(chars, n - 1)}

\* two seeds: one byte value repeated
Seeds == {Repeat(byte, SeedByteCount) : byte \in {<<"0", "f">>, <<"c", "3">>}}
Nonces == 0..MaxNonce

\* the shuffle keys of the model's deals
DealKeys == {combineSeedAndNonce(seed, nonce) : seed \in Seeds, nonce \in Nonces}

ShuffledDecks == [key \in DealKeys |-> seededShuffleDeck(createDeck, key)]

(***************************************************************************)
(* Bounds of the model.                                                    *)
(***************************************************************************)
MaxHands == 1
MaxDraws == 2
MaxTicks == 4
MaxCalls == 3
MaxTape == 2

\* an optional value (null or a value) is a sequence of at most one element
None == <<>>
Some(v) == <<v>>

(***************************************************************************)
(* The session store.                                                      *)
(***************************************************************************)
SESSION_EXPIRY_SECONDS == 3600
SESSION_EXPIRY_MS == SESSION_EXPIRY_SECONDS * 1000

\* JSON.stringify and JSON.parse of a session: the text determines the value
JSONstringify(session) == <<"json", session>>
JSONparse(data) == data[2]

SessionKey(handId) == <<"session:", handId>>

EmptyStore == [sessions |-> <<>>, timers |-> {}, kv |-> <<>>]

\* kv.get: an expired key is gone
kvGet(st, key) ==
    IF key \in DOMAIN st.kv /\ now < st.kv[key].expireAt
    THEN Some(st.kv[key].value) ELSE None

\* the function f without x
Without(f, x) == [y \in DOMAIN f \ {x} |-> f[y]]

\* the store with no expiry: a key without a time to live, a record without
\* a timer
storeSessionForGood(st, session) ==
    IF env.isKVAvailable
    THEN [st EXCEPT !.kv = (SessionKey(session.handId) :>
                              [value    |-> JSONstringify(session),
                               expireAt |-> 2 ^ 30]) @@ @]
    ELSE [st EXCEPT !.sessions = (session.handId :> session) @@ @]

storeSession(st, session) ==
    IF env.isKVAvailable
    THEN [st EXCEPT !.kv = (SessionKey(session.handId) :>
                              [value    |-> JSONstringify(session),
                               expireAt |-> now + SESSION_EXPIRY_SECONDS * 1000]) @@ @]
    ELSE [st EXCEPT !.sessions = (session.handId :> session) @@ @,
                    !.timers = @ \cup {[handId |-> session.handId,
                                        at |-> now + SESSION_EXPIRY_MS]}]

\* getSession returning a record of the in-memory store whatever its age
getSessionUnaged(st, handId) ==
    IF env.isKVAvailable
    THEN LET data == kvGet(st, SessionKey(handId))
         IN  IF data = None THEN [result |-> None, store |-> st]
             ELSE [result |-> Some(JSONparse(data[1])), store |-> st]
    ELSE IF handId \notin DOMAIN st.sessions THEN [result |-> None, store |-> st]
    ELSE [result |-> Some(st.sessions[handId]), store |-> st]

\* getSession expiring a record of the in-memory store at the expiry, not
\* after it
getSessionAtExpiry(st, handId) ==
    IF env.isKVAvailable
    THEN LET data == kvGet(st, SessionKey(handId))
         IN  IF data = None THEN [result |-> None, store |-> st]
             ELSE [result |-> Some(JSONparse(data[1])), store |-> st]
    ELSE IF handId \notin DOMAIN st.sessions THEN [result |-> None, store |-> st]
    ELSE LET session == st.sessions[handId]
             age     == now - session.timestamp
         IN  IF age >= SESSION_EXPIRY_MS
             THEN [result |-> None,
                   store  |-> [st EXCEPT !.sessions = Without(@, handId)]]
             ELSE [result |-> Some(session), store |-> st]

\* getSession: the session or null, and the store it leaves
getSession(st, handId) ==
    IF env.isKVAvailable
    THEN LET data == kvGet(st, SessionKey(handId))
         IN  IF data = None THEN [result |-> None, store |-> st]
             ELSE [result |-> Some(JSONparse(data[1])), store |-> st]
    ELSE IF handId \notin DOMAIN st.sessions THEN [result |-> None, store |-> st]
    ELSE LET session == st.sessions[handId]
             age     == now - session.timestamp
         IN  IF age > SESSION_EXPIRY_MS
             THEN [result |-> None,
                   store  |-> [st EXCEPT !.sessions = Without(@, handId)]]
             ELSE [result |-> Some(session), store |-> st]

\* the session written back without the updates
ApplyUpdatesDropped(session, updates) == session

\* the spread that also stamps the session anew
ApplyUpdatesRestamped(session, updates) ==
    [session EXCEPT !.completed = updates.completed, !.timestamp = now]

\* { ...session, ...updates }, for the one update the routes make
ApplyUpdates(session, updates) == [session EXCEPT !.completed = updates.completed]

\* validateSession: the error message or null, and the store it leaves
validateSession(st, handId) ==
    LET got == getSession(st, handId)
    IN  IF got.result = None
          THEN [error |-> Some("Invalid or expired hand session"), store |-> got.store]
        ELSE IF got.result[1].completed
          THEN [error |-> Some("Hand already completed - cannot replay"), store |-> got.store]
        ELSE [error |-> None, store |-> got.store]

\* cleanupExpiredSessions
cleanupExpiredSessions(st) ==
    IF env.isKVAvailable THEN st
    ELSE [st EXCEPT !.sessions =
            [h \in {x \in DOMAIN @ : ~(now - @[x].timestamp > SESSION_EXPIRY_MS)} |-> @[h]]]

\* what getActiveSessionCount resolves to
getActiveSessionCount(st) ==
    IF env.isKVAvailable
    THEN Cardinality({k \in DOMAIN st.kv : now < st.kv[k].expireAt})
    ELSE Cardinality(DOMAIN st.sessions)

(***************************************************************************)
(* Requests and responses.                                                 *)
(***************************************************************************)
\* A hand id is <<"hand", n>>.  A handId field of a request body is a pair
\* <<kind, n>>: a hand id, the empty string, or a value that is no string.
HandId(n) == <<"hand", n>>
EmptyString == <<"emptyString", 0>>
NotAString == <<"notString", 0>>
IsTruthyString(handId) == handId[1] = "hand"

\* An element of a held array: its typeof and its truthiness.
Bool(b) == [typeof |-> "boolean", truthy |-> b]
NotBool == [typeof |-> "number", truthy |-> TRUE]
HeldArray(items) == [isArray |-> TRUE, items |-> items]
NotAnArray == [isArray |-> FALSE, items |-> <<>>]

Response(route, req, status, body) ==
    [route |-> route, req |-> req, status |-> status, body |-> body]

ErrorBody(message) == [error |-> message]

IdleRequest ==
    [pc |-> "idle", handId |-> NotAString, held |-> NotAnArray, balance |-> 0,
     validationError |-> None, session |-> None, updating |-> None,
     updated |-> FALSE, response |-> None]

(***************************************************************************)
(* POST /api/deal.                                                         *)
(***************************************************************************)
DealResponse(handId, dealtCards, newBalance, seedCommitment) ==
    [handId |-> handId, hand |-> dealtCards, balance |-> newBalance,
     seedCommitment |-> seedCommitment]

\* generateHandId: an id no earlier call returned
generateHandId == HandId(issued + 1)

\* the session stored with a nonce other than the committed one
NewSessionOtherNonce(handId, shuffledDeck, bet, seed, nonce) ==
    [handId        |-> handId,
     fullDeck      |-> shuffledDeck,
     dealtCards    |-> SubSeq(shuffledDeck, 1, 5),
     nextCardIndex |-> 5,
     bet           |-> bet,
     seed          |-> seed,
     nonce         |-> nonce + 1,
     timestamp     |-> now,
     completed     |-> FALSE]

\* the session whose dealt cards are taken one place further on
NewSessionDealtLate(handId, shuffledDeck, bet, seed, nonce) ==
    [handId        |-> handId,
     fullDeck      |-> shuffledDeck,
     dealtCards    |-> SubSeq(shuffledDeck, 2, 6),
     nextCardIndex |-> 5,
     bet           |-> bet,
     seed          |-> seed,
     nonce         |-> nonce,
     timestamp     |-> now,
     completed     |-> FALSE]

\* the session whose cursor is two cards from the end of the deck
NewSessionCursorNearEnd(handId, shuffledDeck, bet, seed, nonce) ==
    [handId        |-> handId,
     fullDeck      |-> shuffledDeck,
     dealtCards    |-> SubSeq(shuffledDeck, 1, 5),
     nextCardIndex |-> Len(shuffledDeck) - 2,
     bet           |-> bet,
     seed          |-> seed,
     nonce         |-> nonce,
     timestamp     |-> now,
     completed     |-> FALSE]

NewSession(handId, shuffledDeck, bet, seed, nonce) ==
    [handId        |-> handId,
     fullDeck      |-> shuffledDeck,
     dealtCards    |-> SubSeq(shuffledDeck, 1, 5),
     nextCardIndex |-> 5,
     bet           |-> bet,
     seed          |-> seed,
     nonce         |-> nonce,
     timestamp     |-> now,
     completed     |-> FALSE]

\* A bet or balance field of a deal body is a JSON value: a number, kept as
\* twice its value so that n + 1/2 is told from n, or a string that is no
\* numeral, which the comparisons and the subtraction turn into NaN.
Num(n) == [typeof |-> "number", nan |-> FALSE, twice |-> 2 * n]
Half(n) == [typeof |-> "number", nan |-> FALSE, twice |-> 2 * n + 1]
NotANumeral == [typeof |-> "string", nan |-> TRUE, twice |-> 0]
NaN == [typeof |-> "number", nan |-> TRUE, twice |-> 0]

\* !v: zero and NaN are falsy, a non-empty string is truthy
Falsy(v) == v.typeof = "number" /\ (v.nan \/ v.twice = 0)

\* a < b: false when either side converts to NaN
LessThan(a, b) == ~a.nan /\ ~b.nan /\ a.twice < b.twice

NumberIsInteger(v) == v.typeof = "number" /\ ~v.nan /\ v.twice % 2 = 0

\* a - b
Minus(a, b) ==
    IF a.nan \/ b.nan THEN NaN
    ELSE [typeof |-> "number", nan |-> FALSE, twice |-> a.twice - b.twice]

\* the integer a value that passed Number.isInteger is
IntegerOf(v) == v.twice \div 2

\* seed and nonce are what generateSeed and generateNonce return
Deal(bet, balance, seed, nonce) ==
    /\ UNCHANGED <<env, now, reqs, sh, fair, ev, pay, strat>>
    /\ IF Falsy(bet) \/ LessThan(bet, Num(1)) \/ LessThan(Num(5), bet)
             \/ ~NumberIsInteger(bet)
       THEN /\ sent' = Some(Response("deal", 0, 400,
                                     ErrorBody("Invalid bet amount. Must be 1-5 credits.")))
            /\ UNCHANGED <<store, issued, deals>>
       ELSE IF Falsy(balance) \/ LessThan(balance, bet)
       THEN /\ sent' = Some(Response("deal", 0, 400, ErrorBody("Insufficient balance")))
            /\ UNCHANGED <<store, issued, deals>>
       ELSE LET shuffleSeed    == combineSeedAndNonce(seed, nonce)
                seedCommitment == createSeedCommitment(seed, nonce)
                deck           == createDeck
                shuffledDeck   == IF shuffleSeed \in DOMAIN ShuffledDecks
                                  THEN ShuffledDecks[shuffleSeed]
                                  ELSE seededShuffleDeck(deck, shuffleSeed)
                handId         == generateHandId
                session        == NewSession(handId, shuffledDeck, IntegerOf(bet),
                                             seed, nonce)
                newBalance     == Minus(balance, bet)
            IN  /\ issued < MaxHands
                /\ store' = storeSession(store, session)
                /\ issued' = issued + 1
                /\ LET response == DealResponse(handId, session.dealtCards,
                                                newBalance, seedCommitment)
                   IN  /\ sent' = Some(Response("deal", 0, 200, response))
                       /\ deals' = (handId :> response) @@ deals

(***************************************************************************)
(* POST /api/draw.  Every await of the route is a point where another      *)
(* request, a timer or the clock may run; the code between two awaits is   *)
(* one step.                                                               *)
(***************************************************************************)
\* the loop of STEP 4 taking the deck card at 5 + i for position i
RECURSIVE ReplaceCardsByPosition(_, _, _, _)
ReplaceCardsByPosition(session, items, i, st) ==
    IF i < 5
    THEN ReplaceCardsByPosition(session, items, i + 1,
           IF items[i + 1].truthy THEN st
           ELSE [st EXCEPT !.finalHand[i + 1] = session.fullDeck[5 + i + 1]])
    ELSE st

\* STEP 4: the loop over the five positions, from position i on
RECURSIVE ReplaceCards(_, _, _, _)
ReplaceCards(session, items, i, st) ==
    IF i < 5
    THEN IF ~items[i + 1].truthy
         THEN IF st.nextCardIndex >= Len(session.fullDeck)
              THEN [st EXCEPT !.exhausted = TRUE]
              ELSE ReplaceCards(session, items, i + 1,
                     [finalHand     |-> [st.finalHand EXCEPT ![i + 1] =
                                            session.fullDeck[st.nextCardIndex + 1]],
                      nextCardIndex |-> st.nextCardIndex + 1,
                      exhausted     |-> FALSE])
         ELSE ReplaceCards(session, items, i + 1, st)
    ELSE st

BuildFinalHand(session, held) ==
    ReplaceCards(session, held.items, 0,
                 [finalHand     |-> session.dealtCards,
                  nextCardIndex |-> session.nextCardIndex,
                  exhausted     |-> FALSE])

\* the response paid on a bet of 5 credits, whatever bet the session holds
DrawResponseMaxBet(session, finalHand, balance) ==
    LET handRank           == evaluateHand(finalHand)
        winningCardIndices == getWinningCardIndices(finalHand, handRank)
        evaluation         == [calculatePayout(handRank, 5)
                                 EXCEPT !.winningCardIndices = winningCardIndices]
        newBalance         == balance + evaluation.payout
    IN  [hand |-> finalHand, evaluation |-> evaluation, balance |-> newBalance,
         seed |-> session.seed, nonce |-> session.nonce]

\* STEP 5, 6 and 8: the body of the successful response
DrawResponse(session, finalHand, balance) ==
    LET handRank           == evaluateHand(finalHand)
        winningCardIndices == getWinningCardIndices(finalHand, handRank)
        evaluation         == [calculatePayout(handRank, session.bet)
                                 EXCEPT !.winningCardIndices = winningCardIndices]
        newBalance         == balance + evaluation.payout
    IN  [hand |-> finalHand, evaluation |-> evaluation, balance |-> newBalance,
         seed |-> session.seed, nonce |-> session.nonce]

\* the request once it is answered: its locals are gone, what it was about
\* and what updateSession resolved to are kept
Answered(r, handId, held, status, body, updated) ==
    [IdleRequest EXCEPT !.pc = "done",
                        !.handId = handId,
                        !.held = held,
                        !.updated = updated,
                        !.response = Some(Response("draw", r, status, body))]

Reply(r, status, body) ==
    reqs' = [reqs EXCEPT ![r] =
               Answered(r, reqs[r].handId, reqs[r].held, status, body, FALSE)]

\* STEP 1 refusing the body it has just read
Refuse(r, handId, held, message) ==
    /\ reqs' = [reqs EXCEPT ![r] =
                  Answered(r, handId, held, 400, ErrorBody(message), FALSE)]
    /\ UNCHANGED store

\* STEP 1, and validateSession's read of the store
DrawReceive(r, handId, held, balance) ==
    /\ reqs[r].pc = "idle"
    /\ \A q \in 1..(r - 1) : reqs[q].pc # "idle"
    /\ UNCHANGED <<env, now, issued, deals, sent, sh, fair, ev, pay, strat>>
    /\ IF ~IsTruthyString(handId)
       THEN Refuse(r, handId, held, "Invalid hand ID")
       ELSE IF ~held.isArray \/ Len(held.items) # 5
       THEN Refuse(r, handId, held, "Hold array must contain exactly 5 boolean values")
       ELSE IF \E k \in 1..Len(held.items) : held.items[k].typeof # "boolean"
       THEN Refuse(r, handId, held, "All hold values must be boolean")
       ELSE LET validation == validateSession(store, handId)
            IN  /\ store' = validation.store
                /\ reqs' = [reqs EXCEPT ![r] =
                              [IdleRequest EXCEPT !.pc = "validated",
                                                  !.handId = handId,
                                                  !.held = held,
                                                  !.balance = balance,
                                                  !.validationError = validation.error]]

\* STEP 2's test and STEP 3: getSession's read of the store
DrawLoad(r) ==
    /\ reqs[r].pc = "validated"
    /\ UNCHANGED <<env, now, issued, deals, sent, sh, fair, ev, pay, strat>>
    /\ IF reqs[r].validationError # None
       THEN Reply(r, 400, ErrorBody(reqs[r].validationError[1])) /\ UNCHANGED store
       ELSE LET got == getSession(store, reqs[r].handId)
            IN  /\ store' = got.store
                /\ IF got.result = None
                   THEN Reply(r, 404, ErrorBody("Session not found"))
                   ELSE reqs' = [reqs EXCEPT ![r].pc = "loaded",
                                             ![r].session = got.result]

\* STEP 4 to 6, and the read of the store that begins updateSession
DrawEvaluate(r) ==
    /\ reqs[r].pc = "loaded"
    /\ UNCHANGED <<env, now, issued, deals, sent, sh, fair, ev, pay, strat>>
    /\ LET session == reqs[r].session[1]
           built   == BuildFinalHand(session, reqs[r].held)
       IN  IF built.exhausted
           THEN Reply(r, 500, ErrorBody("Not enough cards in deck")) /\ UNCHANGED store
           ELSE IF Len(built.finalHand) # 5
           THEN /\ Reply(r, 500, ErrorBody("Hand must contain exactly 5 cards"))
                /\ UNCHANGED store
           ELSE LET got == getSession(store, reqs[r].handId)
                IN  /\ store' = got.store
                    /\ reqs' = [reqs EXCEPT ![r].pc = "updating",
                                            ![r].updating = got.result]

\* STEP 7's write, which ends updateSession, and STEP 8
DrawCommit(r) ==
    /\ reqs[r].pc = "updating"
    /\ UNCHANGED <<env, now, issued, deals, sent, sh, fair, ev, pay, strat>>
    /\ LET session == reqs[r].session[1]
           built   == BuildFinalHand(session, reqs[r].held)
       IN  /\ store' = IF reqs[r].updating = None THEN store
                       ELSE storeSession(store, ApplyUpdates(reqs[r].updating[1],
                                                             [completed |-> TRUE]))
           /\ reqs' = [reqs EXCEPT ![r] =
                         Answered(r, reqs[r].handId, reqs[r].held, 200,
                                  DrawResponse(session, built.finalHand, reqs[r].balance),
                                  reqs[r].updating # None)]

(***************************************************************************)
(* GET /api/debug/sessions.  The route does not await the count, so the    *)
(* response carries the JSON text of a pending promise.                    *)
(***************************************************************************)
DebugSessions ==
    /\ UNCHANGED <<env, now, store, issued, reqs, deals, sh, fair, ev, pay, strat>>
    /\ sent' = Some(IF env.production
                    THEN Response("debug", 0, 403,
                                  ErrorBody("Not available in production"))
                    ELSE Response("debug", 0, 200,
                                  [activeSessionCount |-> "{}",
                                   timestamp |-> <<"iso", now>>]))

(***************************************************************************)
(* Time: the clock, the setTimeout callbacks of the in-memory store, the   *)
(* key-value store's expiry, and the periodic cleanup.                     *)
(***************************************************************************)
TickMs == SESSION_EXPIRY_MS \div 3

DueTimers == {t \in store.timers : now >= t.at}

\* a request is between two awaits of the draw route
InFlight == \E r \in 1..MaxDraws : reqs[r].pc \notin {"idle", "done"}

\* the callback storeSession schedules: sessions.delete(handId).  Timers
\* are set by the in-memory store only, whose awaits resolve without
\* leaving the microtask queue: no callback runs inside a request.
TimerFire(t) ==
    /\ t \in DueTimers
    /\ ~InFlight
    /\ store' = [store EXCEPT !.sessions = Without(@, t.handId),
                              !.timers = @ \ {t}]
    /\ UNCHANGED <<env, now, issued, reqs, deals, sent, sh, fair, ev, pay, strat>>

\* the clock advances, whether or not the callbacks that are due have run
\* (setTimeout runs a callback no earlier than its time, possibly later);
\* the key-value store drops the keys whose time to live has passed
Tick ==
    /\ now < MaxTicks * TickMs
    /\ now' = now + TickMs
    /\ store' = [store EXCEPT !.kv =
                   [k \in {x \in DOMAIN @ : now' < @[x].expireAt} |-> @[k]]]
    /\ UNCHANGED <<env, issued, reqs, deals, sent, sh, fair, ev, pay, strat>>

Cleanup ==
    /\ store' = cleanupExpiredSessions(store)
    /\ UNCHANGED <<env, now, issued, reqs, deals, sent, sh, fair, ev, pay, strat>>

(***************************************************************************)
(* Inputs.                                                                 *)
(***************************************************************************)
HeldMasks == {HeldArray(<<Bool(a), Bool(b), Bool(c), Bool(d), Bool(e)>>) :
                a \in BOOLEAN, b \in BOOLEAN, c \in BOOLEAN, d \in BOOLEAN, e \in BOOLEAN}

BadHelds == {NotAnArray,
             HeldArray(<<Bool(TRUE), Bool(FALSE), Bool(TRUE), Bool(FALSE)>>),
             HeldArray(<<Bool(TRUE), NotBool, Bool(TRUE), Bool(FALSE), Bool(FALSE)>>)}

SomeHelds == {HeldArray(<<Bool(FALSE), Bool(TRUE), Bool(FALSE), Bool(FALSE), Bool(TRUE)>>)}

\* the ids of the hands dealt so far and an id of no hand
HandIds == {HandId(n) : n \in 0..issued}

\* the same, and two ids the route refuses
HandIdInputs == HandIds \cup {EmptyString, NotAString}

RoutesInit(kvs, productions) ==
    /\ env \in [isKVAvailable : kvs, production : productions]
    /\ now = 0
    /\ store = EmptyStore
    /\ issued = 0
    /\ reqs = [r \in 1..MaxDraws |-> IdleRequest]
    /\ deals = <<>>
    /\ sent = None

\* the routes alone: the two harnesses are not in use
InitEnv(kvs, productions) ==
    /\ RoutesInit(kvs, productions)
    /\ sh = <<>>
    /\ fair = <<>>
    /\ ev = <<>>
    /\ pay = <<>>
    /\ strat = <<>>

(***************************************************************************)
(* Spec: the routes under concurrent requests and the passing of time.     *)
(***************************************************************************)
Init == InitEnv(BOOLEAN, {FALSE})

Next ==
    \/ Deal(Num(1), Num(3), CHOOSE seed \in Seeds : TRUE, MaxNonce)
    \/ \E r \in 1..MaxDraws, handId \in HandIds, held \in SomeHelds, balance \in {7} :
         DrawReceive(r, handId, held, balance)
    \/ \E r \in 1..MaxDraws : DrawLoad(r)
    \/ \E r \in 1..MaxDraws : DrawEvaluate(r)
    \/ \E r \in 1..MaxDraws : DrawCommit(r)
    \/ \E t \in store.timers : TimerFire(t)
    \/ Tick
    \/ Cleanup

Spec == Init /\ [][Next]_vars

(***************************************************************************)
(* SpecRound: rounds played one request at a time, over every seed, nonce  *)
(* and hold selection of the model.                                        *)
(***************************************************************************)
Requests == 1..MaxDraws

Sequential == \A q \in Requests : reqs[q].pc \in {"idle", "done"}

RoundInit == InitEnv(BOOLEAN, {FALSE})

RoundNext ==
    \/ \E seed \in Seeds, nonce \in Nonces : Deal(Num(5), Num(10), seed, nonce)
    \/ /\ Sequential
       /\ \E r \in Requests, handId \in HandIds, balance \in {5} :
            \E held \in (IF r = 1 THEN HeldMasks ELSE SomeHelds) :
              DrawReceive(r, handId, held, balance)
    \/ \E r \in Requests : DrawLoad(r)
    \/ \E r \in Requests : DrawEvaluate(r)
    \/ \E r \in Requests : DrawCommit(r)

SpecRound == RoundInit /\ [][RoundNext]_vars

(***************************************************************************)
(* SpecApi: the three routes with the requests they refuse as well as the  *)
(* ones they serve.  generateSeed returns 256 random bits: no two hands    *)
(* get the same seed.                                                      *)
(***************************************************************************)
UsedSeeds ==
    {JSONparse(store.kv[k].value).seed : k \in DOMAIN store.kv}
        \cup {store.sessions[h].seed : h \in DOMAIN store.sessions}

ApiInit == InitEnv(BOOLEAN, BOOLEAN)

ApiNext ==
    \/ \E seed \in Seeds \ UsedSeeds : Deal(Num(1), Num(10), seed, MaxNonce)
    \/ \E bet \in {Num(0), Num(5)} : Deal(bet, Num(3), <<>>, 0)
    \/ /\ Sequential
       /\ \E r \in Requests, handId \in HandIdInputs, balance \in {5} :
            \E held \in SomeHelds \cup BadHelds : DrawReceive(r, handId, held, balance)
    \/ \E r \in Requests : DrawLoad(r)
    \/ \E r \in Requests : DrawEvaluate(r)
    \/ \E r \in Requests : DrawCommit(r)
    \/ DebugSessions

SpecApi == ApiInit /\ [][ApiNext]_vars

(***************************************************************************)
(* SpecLife: the life of one session.  After one deal, draw requests, well *)
(* formed or not, come one at a time while the clock advances, timers fire *)
(* and the cleanup runs, also between the awaits of a request.             *)
(***************************************************************************)
LifeInit == InitEnv(BOOLEAN, {FALSE})

LifeNext ==
    \/ issued = 0 /\ Deal(Num(2), Num(10), CHOOSE seed \in Seeds : TRUE, 0)
    \/ /\ Sequential
       /\ \E r \in Requests, handId \in HandIdInputs, balance \in {5} :
            \E held \in SomeHelds \cup BadHelds : DrawReceive(r, handId, held, balance)
    \/ \E r \in Requests : DrawLoad(r)
    \/ \E r \in Requests : DrawEvaluate(r)
    \/ \E r \in Requests : DrawCommit(r)
    \/ \E t \in store.timers : TimerFire(t)
    \/ Tick
    \/ Cleanup

SpecLife == LifeInit /\ [][LifeNext]_vars

(***************************************************************************)
(* SpecPlay: rounds at several bets and balances, one request at a time:   *)
(* deals that are refused and deals that are served, and draws that carry  *)
(* the balance of the client.                                              *)
(***************************************************************************)
PlayBets == {Num(1), Num(5)}

PlayBalances == {Num(3), Num(5)}

DrawBalances == {0, 5}

PlaySeed == Repeat(<<"0", "f">>, SeedByteCount)

\* every card held, the last card alone, and the selection of SomeHelds
PlayHelds ==
    SomeHelds \cup
      {HeldArray(<<Bool(TRUE), Bool(TRUE), Bool(TRUE), Bool(TRUE), Bool(TRUE)>>),
       HeldArray(<<Bool(FALSE), Bool(FALSE), Bool(FALSE), Bool(FALSE), Bool(TRUE)>>)}

PlayInit == InitEnv(BOOLEAN, {FALSE})

PlayNext ==
    \/ \E bet \in PlayBets, balance \in PlayBalances : Deal(bet, balance, PlaySeed, 0)
    \/ /\ Sequential
       /\ \E r \in Requests, handId \in HandIds, held \in PlayHelds :
            \E balance \in (IF r = 1 THEN DrawBalances ELSE {5}) :
              DrawReceive(r, handId, held, balance)
    \/ \E r \in Requests : DrawLoad(r)
    \/ \E r \in Requests : DrawEvaluate(r)
    \/ \E r \in Requests : DrawCommit(r)

SpecPlay == PlayInit /\ [][PlayNext]_vars

(***************************************************************************)
(* SpecExpiry: the life of the sessions to its end.  The clock runs for    *)
(* MaxHours hours; deals and draw requests come during all but the last of *)
(* them and a request does not outlast them, so that every record written  *)
(* has its hour within the time of the model.  Time passes, callbacks that *)
(* are due run and the awaits of a request resolve: these steps are fair.  *)
(* Deals, draw requests and the cleanup are not.                           *)
(***************************************************************************)
MaxHours == 2

WriteDeadline == (MaxHours - 1) * SESSION_EXPIRY_MS

ExpiryInit == InitEnv(BOOLEAN, {FALSE})

\* the ids of the hands dealt so far
DealtIds == {HandId(n) : n \in 1..issued}

\* the clock advances; the key-value store drops the keys whose time to
\* live has passed
Elapse ==
    /\ now < MaxHours * SESSION_EXPIRY_MS
    /\ now < WriteDeadline \/ ~InFlight
    /\ now' = now + TickMs
    /\ store' = [store EXCEPT !.kv =
                   [k \in {x \in DOMAIN @ : now' < @[x].expireAt} |-> @[k]]]
    /\ UNCHANGED <<env, issued, reqs, deals, sent, sh, fair, ev, pay, strat>>

ExpiryNext ==
    \/ now <= WriteDeadline /\ Deal(Num(2), Num(10), PlaySeed, 0)
    \/ /\ now <= WriteDeadline
       /\ Sequential
       /\ \E r \in Requests, handId \in DealtIds, held \in SomeHelds, balance \in {5} :
            DrawReceive(r, handId, held, balance)
    \/ \E r \in Requests : DrawLoad(r)
    \/ \E r \in Requests : DrawEvaluate(r)
    \/ \E r \in Requests : DrawCommit(r)
    \/ \E t \in store.timers : TimerFire(t)
    \/ Elapse
    \/ Cleanup

\* DrawCommit(r) is enabled exactly when request r is at its last await and
\* every step of it leaves that place: weak fairness of DrawCommit(r) is
\* []<>(reqs[r].pc # "updating"), the form it is given here
ExpiryFairness ==
    /\ WF_vars(Elapse)
    /\ WF_vars(\E t \in store.timers : TimerFire(t))
    /\ \A r \in Requests :
          /\ WF_vars(DrawLoad(r))
          /\ WF_vars(DrawEvaluate(r))
          /\ []<>(reqs[r].pc # "updating")

SpecExpiry == ExpiryInit /\ [][ExpiryNext]_vars /\ ExpiryFairness

(***************************************************************************)
(* SpecDeal: the deal route over the bets and balances a body can carry:   *)
(* integers in and out of range, a number that is no integer, and a string *)
(* that is no numeral.                                                     *)
(***************************************************************************)
Bets == {Num(0), Num(1), Num(5), Num(6), Half(2), NotANumeral}

Balances == {Num(0), Num(3), Num(5), Half(4), NotANumeral}

DealInit == InitEnv(BOOLEAN, BOOLEAN)

DealNext ==
    \/ \E bet \in Bets, balance \in Balances, seed \in Seeds, nonce \in Nonces :
         Deal(bet, balance, seed, nonce)
    \/ DebugSessions

SpecDeal == DealInit /\ [][DealNext]_vars

(***************************************************************************)
(* SpecShuffle: the two shuffles called on the ordered deck, one loop      *)
(* iteration a step.  sh holds the call in progress (the function called, *)
(* its key, its locals), what the last call returned, and the first return *)
(* of the seeded shuffle.  crypto.randomInt(0, i + 1) may return any of 0..i: a call of  *)
(* the operational shuffle follows one of MaxTape + 1 tapes.               *)
(***************************************************************************)
\* the keys of the model's deals, and two short keys
ShuffleKeys == DealKeys \cup {<<"a", ":", "0">>, <<>>}

\* the index randomInt(0, i + 1) returns on a tape
randomInt(tape, i) == (tape * i) \div MaxTape

ShuffleIdle ==
    [pc |-> "idle", fn |-> "none", key |-> <<>>, tape |-> 0,
     st |-> [deckCopy |-> <<>>, seedNum |-> BigFromInt(0), i |-> -1],
     out |-> None, first |-> None, calls |-> 0]

ShuffleInit ==
    /\ RoutesInit({FALSE}, {FALSE})
    /\ sh = ShuffleIdle
    /\ fair = <<>>
    /\ ev = <<>>
    /\ pay = <<>>
    /\ strat = <<>>

\* seededShuffleDeck(createDeck(), key) is called
SeededCall(key) ==
    /\ sh.pc = "idle"
    /\ sh.calls < MaxCalls
    /\ sh' = [sh EXCEPT !.pc = "seeded", !.fn = "seededShuffleDeck", !.key = key,
                        !.st = ShuffleStart(createDeck, key),
                        !.out = None, !.calls = @ + 1]
    /\ UNCHANGED <<env, now, store, issued, reqs, deals, sent, fair, ev, pay, strat>>

SeededIterate ==
    /\ sh.pc = "seeded"
    /\ sh.st.i > 0
    /\ sh' = [sh EXCEPT !.st = ShuffleStep(@)]
    /\ UNCHANGED <<env, now, store, issued, reqs, deals, sent, fair, ev, pay, strat>>

SeededReturn ==
    /\ sh.pc = "seeded"
    /\ ~(sh.st.i > 0)
    /\ sh' = [sh EXCEPT !.pc = "idle", !.out = Some(sh.st.deckCopy),
                        !.first = IF @ = None
                                  THEN Some([key |-> sh.key, out |-> sh.st.deckCopy])
                                  ELSE @]
    /\ UNCHANGED <<env, now, store, issued, reqs, deals, sent, fair, ev, pay, strat>>

\* shuffleDeck(createDeck()) is called
RandomCall(tape) ==
    /\ sh.pc = "idle"
    /\ sh.calls < MaxCalls
    /\ sh' = [sh EXCEPT !.pc = "random", !.fn = "shuffleDeck", !.key = <<>>,
                        !.tape = tape,
                        !.st = [sh.st EXCEPT !.deckCopy = createDeck,
                                             !.i = Len(createDeck) - 1],
                        !.out = None, !.calls = @ + 1]
    /\ UNCHANGED <<env, now, store, issued, reqs, deals, sent, fair, ev, pay, strat>>

RandomIterate ==
    /\ sh.pc = "random"
    /\ sh.st.i > 0
    /\ LET j == randomInt(sh.tape, sh.st.i)
       IN  sh' = [sh EXCEPT !.st.deckCopy = Swap(@, sh.st.i, j), !.st.i = @ - 1]
    /\ UNCHANGED <<env, now, store, issued, reqs, deals, sent, fair, ev, pay, strat>>

RandomReturn ==
    /\ sh.pc = "random"
    /\ ~(sh.st.i > 0)
    /\ sh' = [sh EXCEPT !.pc = "idle", !.out = Some(sh.st.deckCopy)]
    /\ UNCHANGED <<env, now, store, issued, reqs, deals, sent, fair, ev, pay, strat>>

ShuffleNext ==
    \/ \E key \in ShuffleKeys : SeededCall(key)
    \/ SeededIterate
    \/ SeededReturn
    \/ \E tape \in 0..MaxTape : RandomCall(tape)
    \/ RandomIterate
    \/ RandomReturn

SpecShuffle == ShuffleInit /\ [][ShuffleNext]_vars

(***************************************************************************)
(* SpecFair: a commitment made for one seed and nonce and verified against *)
(* another pair.  verifySeedCommitment takes any string and number: the    *)
(* seeds are of every length up to FairLen, a colon among their            *)
(* characters, the nonces of one and of two digits.                        *)
(***************************************************************************)
FairSeeds ==
    UNION {StringsOfLength({"1", ":", "f"}, n) : n \in 0..FairLen}

FairNonces == Nonces \cup {10 + nonce : nonce \in Nonces}

FairInit ==
    /\ RoutesInit({FALSE}, {FALSE})
    /\ sh = <<>>
    /\ fair \in [seed : FairSeeds, nonce : FairNonces,
                  seed2 : FairSeeds, nonce2 : FairNonces,
                  commitment : {None}, verdict : {None}]
    /\ ev = <<>>
    /\ pay = <<>>
    /\ strat = <<>>

Commit ==
    /\ fair.commitment = None
    /\ fair' = [fair EXCEPT !.commitment =
                               Some(createSeedCommitment(fair.seed, fair.nonce))]
    /\ UNCHANGED <<env, now, store, issued, reqs, deals, sent, sh, ev, pay, strat>>

Verify ==
    /\ fair.commitment # None
    /\ fair.verdict = None
    /\ fair' = [fair EXCEPT !.verdict =
                   Some(verifySeedCommitment(fair.seed2, fair.nonce2, fair.commitment[1]))]
    /\ UNCHANGED <<env, now, store, issued, reqs, deals, sent, sh, ev, pay, strat>>

FairNext == Commit \/ Verify

SpecFair == FairInit /\ [][FairNext]_vars

(***************************************************************************)
(* The evaluator at work.  A hand of five distinct cards is handed to      *)
(* evaluateHand, then, with the rank it returned, to                       *)
(* getWinningCardIndices; the same cards are then handed over again with   *)
(* two neighbours exchanged.  The hands cover every multiset of five ranks *)
(* (at most four of a rank), suited where the ranks allow it and not       *)
(* suited; the hands over the ranks of the wheel, and those over the ranks *)
(* from the nine to the ace, are handed over in every order.               *)
(***************************************************************************)
HandSize == 5

\* the ranks of a hand, as places in RANKS, in ascending order
RankRuns ==
    {run \in [1..HandSize -> 1..Len(RANKS)] :
        /\ \A k \in 2..HandSize : run[k - 1] <= run[k]
        /\ run[1] # run[HandSize]}

\* the cards of a run: the n-th card of a rank takes the n-th suit, and an
\* offsuit hand moves its last card, when it is the first of its rank, to
\* the second suit
HandOf(run, offsuit) ==
    [k \in 1..HandSize |->
        LET nth  == Cardinality({m \in 1..k : run[m] = run[k]})
            suit == IF offsuit /\ k = HandSize /\ nth = 1 THEN 2 ELSE nth
        IN  DeckCard((suit - 1) * Len(RANKS) + (run[k] - 1))]

Hands == {HandOf(run, offsuit) : run \in RankRuns, offsuit \in BOOLEAN}

\* the ranks of the wheel, and those from the nine to the ace
ArrangedRanks == {{"A", "2", "3", "4", "5"}, {"9", "10", "J", "Q", "K", "A"}}

Arranged(hand) == \E ranks \in ArrangedRanks : \A k \in 1..Len(hand) : hand[k].rank \in ranks

HandInit ==
    /\ RoutesInit({FALSE}, {FALSE})
    /\ sh = <<>>
    /\ fair = <<>>
    /\ ev \in [pc : {"dealt"}, hand : Hands, rank : {"NOTHING"}, winning : {<<>>}]
    /\ pay = <<>>
    /\ strat = <<>>

\* evaluateHand(hand) is called
Evaluate ==
    /\ ev.pc = "dealt"
    /\ ev' = [ev EXCEPT !.pc = "ranked", !.rank = evaluateHand(ev.hand)]
    /\ UNCHANGED <<env, now, store, issued, reqs, deals, sent, sh, fair, pay, strat>>

\* getWinningCardIndices(hand, rank) is called with the rank returned
Mark ==
    /\ ev.pc = "ranked"
    /\ ev' = [ev EXCEPT !.pc = "marked",
                        !.winning = getWinningCardIndices(ev.hand, ev.rank)]
    /\ UNCHANGED <<env, now, store, issued, reqs, deals, sent, sh, fair, pay, strat>>

\* the hand with the cards at the 0-based positions i and i + 1 exchanged
Exchange(hand, i) == [hand EXCEPT ![i + 1] = hand[i + 2], ![i + 2] = hand[i + 1]]

\* both functions are called on the same cards in another order
Rearrange(i) ==
    /\ ev.pc = "marked"
    /\ Arranged(ev.hand)
    /\ LET hand == Exchange(ev.hand, i)
           rank == evaluateHand(hand)
       IN  ev' = [ev EXCEPT !.hand = hand, !.rank = rank,
                            !.winning = getWinningCardIndices(hand, rank)]
    /\ UNCHANGED <<env, now, store, issued, reqs, deals, sent, sh, fair, pay, strat>>

HandNext ==
    \/ Evaluate
    \/ Mark
    \/ \E i \in 0..(HandSize - 2) : Rearrange(i)

SpecHand == HandInit /\ [][HandNext]_vars

(***************************************************************************)
(* The pay table at work.  A rank and a bet are handed to getMultiplier    *)
(* and to calculatePayout, and the cell of the rank under the bet is read  *)
(* from the displayed table and from the printed one.                      *)
(***************************************************************************)
MaxBet == 6

HandRanks ==
    {"ROYAL_FLUSH", "STRAIGHT_FLUSH", "FOUR_OF_A_KIND", "FULL_HOUSE", "FLUSH",
     "STRAIGHT", "THREE_OF_A_KIND", "TWO_PAIR", "JACKS_OR_BETTER", "NOTHING"}

PayInit ==
    /\ RoutesInit({FALSE}, {FALSE})
    /\ sh = <<>>
    /\ fair = <<>>
    /\ ev = <<>>
    /\ pay \in [pc : {"asked"}, rank : HandRanks, bet : 0..MaxBet, multiplier : {0},
                evaluation : {None}, shown : {None}, printed : {None}]
    /\ strat = <<>>

\* getMultiplier(rank, bet) is called
Multiply ==
    /\ pay.pc = "asked"
    /\ pay' = [pay EXCEPT !.pc = "multiplied", !.multiplier = getMultiplier(pay.rank, pay.bet)]
    /\ UNCHANGED <<env, now, store, issued, reqs, deals, sent, sh, fair, ev, strat>>

\* calculatePayout(rank, bet) is called
Payout ==
    /\ pay.pc = "multiplied"
    /\ pay' = [pay EXCEPT !.pc = "paid",
                          !.evaluation = Some(calculatePayout(pay.rank, pay.bet))]
    /\ UNCHANGED <<env, now, store, issued, reqs, deals, sent, sh, fair, ev, strat>>

\* the PayTable component renders getPayTable(); the README prints its table
Display ==
    /\ pay.pc = "paid"
    /\ pay' = [pay EXCEPT !.pc = "shown",
                          !.shown = Cell(getPayTable, getHandName(pay.rank), pay.bet),
                          !.printed = Cell(ReadmePayTable, getHandName(pay.rank), pay.bet)]
    /\ UNCHANGED <<env, now, store, issued, reqs, deals, sent, sh, fair, ev, strat>>

PayNext == Multiply \/ Payout \/ Display

SpecPay == PayInit /\ [][PayNext]_vars

(***************************************************************************)
(* The strategy engine at work: calculateEV(hand, holdIndices) is called   *)
(* for a hand and the hold pattern of a mask, and runs its loop over the   *)
(* draws one iteration at a time.  The masks are those that draw at most   *)
(* MaxDrawn cards.                                                         *)
(***************************************************************************)
MaxDrawn == 2

\* a royal flush draw with a discard off the suit, and a low pair
StrategyHands ==
    { [k \in 1..5 |-> parseCard(<< <<"A", "H">>, <<"K", "H">>, <<"Q", "H">>, <<"J", "H">>,
                                    <<"3", "S">> >>[k])],
      [k \in 1..5 |-> parseCard(<< <<"7", "C">>, <<"2", "H">>, <<"7", "D">>, <<"10", "S">>,
                                    <<"K", "D">> >>[k])] }

StrategyHolds ==
    {HoldIndicesOf(mask) : mask \in {m \in 0..31 : 5 - Len(HoldIndicesOf(m)) <= MaxDrawn}}

\* what combinations(remainingDeck, numToDraw) yields, for each call
Draws ==
    [hand \in StrategyHands, holdIndices \in StrategyHolds |->
        combinations(RemainingDeck(hand, holdIndices), 5 - Len(holdIndices))]

\* the locals of calculateEV when the loop is entered
StrategyInit ==
    /\ RoutesInit({FALSE}, {FALSE})
    /\ sh = <<>>
    /\ fair = <<>>
    /\ ev = <<>>
    /\ pay = <<>>
    /\ strat \in [pc : {"enumerating"}, hand : StrategyHands, holdIndices : StrategyHolds,
                  yielded : {0}, totalPayout : {0}, totalCombinations : {0},
                  outcomeCounts : {[rank \in HandRanks |-> 0]}, ev : {None}]

\* one iteration of the loop over the draws
Enumerate ==
    /\ strat.pc = "enumerating"
    /\ strat.yielded < Len(Draws[strat.hand, strat.holdIndices])
    /\ LET drawnCards == Draws[strat.hand, strat.holdIndices][strat.yielded + 1]
           finalHand  == FinalHand(strat.hand, strat.holdIndices, drawnCards)
           handRank   == evaluateHand(finalHand)
           payout     == PAY_TABLE[handRank]
       IN  strat' = [strat EXCEPT !.yielded = @ + 1,
                                  !.totalPayout = @ + payout,
                                  !.totalCombinations = @ + 1,
                                  !.outcomeCounts[handRank] = @ + 1]
    /\ UNCHANGED <<env, now, store, issued, reqs, deals, sent, sh, fair, ev, pay>>

\* the generator is exhausted: ev = totalPayout / totalCombinations, kept
\* as the fraction
ReturnEV ==
    /\ strat.pc = "enumerating"
    /\ strat.yielded = Len(Draws[strat.hand, strat.holdIndices])
    /\ strat' = [strat EXCEPT !.pc = "returned",
                              !.ev = IF strat.totalCombinations > 0
                                     THEN Some([num |-> strat.totalPayout,
                                                den |-> strat.totalCombinations])
                                     ELSE Some([num |-> 0, den |-> 1])]
    /\ UNCHANGED <<env, now, store, issued, reqs, deals, sent, sh, fair, ev, pay>>

StrategyNext == Enumerate \/ ReturnEV

SpecStrategy == StrategyInit /\ [][StrategyNext]_vars

(***************************************************************************)
(* analyzeHand, a call at a time: the input is parsed, then for each hold  *)
(* mask in ascending order calculateEV is called and a strategy pushed,    *)
(* then the strategies are sorted and the first three returned.  An error  *)
(* thrown on the way ends the call.  The masks are those that draw at most *)
(* MaxDrawn cards.                                                         *)
(***************************************************************************)
\* the royal flush draw and the low pair, a hand of four cards and one of six
AnalyzeInputs ==
    { << <<"A", "H">>, <<"K", "H">>, <<"Q", "H">>, <<"J", "H">>, <<"3", "S">> >>,
      << <<"7", "C">>, <<"2", "H">>, <<"7", "D">>, <<"10", "S">>, <<"K", "D">> >>,
      << <<"A", "H">>, <<"K", "H">>, <<"Q", "H">>, <<"J", "H">> >>,
      << <<"7", "C">>, <<"2", "H">>, <<"7", "D">>, <<"10", "S">>, <<"K", "D">>, <<"4", "H">> >> }

ParsedHand(handInput) == [k \in 1..Len(handInput) |-> parseCard(handInput[k])]

AnalyzedMasks == {mask \in 0..31 : 5 - Len(HoldIndicesOf(mask)) <= MaxDrawn}

\* the next mask of the loop from mask on, 32 when the loop is over
NextMask(mask) ==
    IF \E m \in AnalyzedMasks : m >= mask
    THEN CHOOSE m \in AnalyzedMasks : m >= mask /\ \A n \in AnalyzedMasks : n >= mask => m <= n
    ELSE 32

AnalyzeInit ==
    /\ RoutesInit({FALSE}, {FALSE})
    /\ sh = <<>>
    /\ fair = <<>>
    /\ ev = <<>>
    /\ pay = <<>>
    /\ strat \in [pc : {"called"}, handInput : AnalyzeInputs, hand : {<<>>}, mask : {0},
                  calculated : {None}, evs : {<<>>}, strategies : {<<>>},
                  returned : {None}, thrown : {None}]

\* handInput.map(parseCard), and the loop is entered
ParseInput ==
    /\ strat.pc = "called"
    /\ strat' = [strat EXCEPT !.pc = "calculating",
                              !.hand = ParsedHand(strat.handInput),
                              !.mask = NextMask(0)]
    /\ UNCHANGED <<env, now, store, issued, reqs, deals, sent, sh, fair, ev, pay>>

\* calculateEV(hand, holdIndices) of the mask of this iteration; evs keeps
\* what each call returned, the expected value as the exact fraction
CalculateMask ==
    /\ strat.pc = "calculating"
    /\ strat.mask < 32
    /\ LET calculated == calculateEV(strat.hand, HoldIndicesOf(strat.mask))
       IN  strat' = IF calculated.threw # ""
                    THEN [strat EXCEPT !.pc = "threw", !.thrown = Some(calculated)]
                    ELSE [strat EXCEPT !.pc = "pushing",
                                       !.calculated = Some(calculated),
                                       !.evs = (strat.mask :> calculated) @@ @]
    /\ UNCHANGED <<env, now, store, issued, reqs, deals, sent, sh, fair, ev, pay>>

\* the rest of the iteration: the most likely outcome, the explanation and
\* the push of the strategy
PushStrategy ==
    /\ strat.pc = "pushing"
    /\ LET holdIndices == HoldIndicesOf(strat.mask)
           calculated  == strat.calculated[1]
           mostLikely  == getMostLikelyOutcome(calculated.outcomeCounts)
           holdCards   == [k \in 1..Len(holdIndices) |->
                              cardToString(strat.hand[holdIndices[k] + 1])]
           explanation == generateExplanation(holdIndices, mostLikely, strat.hand)
       IN  strat' =
             IF explanation.threw # ""
             THEN [strat EXCEPT !.pc = "threw", !.thrown = Some(explanation)]
             ELSE [strat EXCEPT
                     !.pc = "calculating",
                     !.mask = NextMask(strat.mask + 1),
                     !.calculated = None,
                     !.strategies = Append(@,
                         [holdIndices |-> holdIndices,
                          holdCards |-> holdCards,
                          ev |-> ToFixed(calculated.ev, 1, 10000),
                          evPercent |-> ToFixed(calculated.ev, 100, 100),
                          mostLikelyOutcome |-> getHandNameOfStrategy(mostLikely),
                          explanation |-> explanation.text])]
    /\ UNCHANGED <<env, now, store, issued, reqs, deals, sent, sh, fair, ev, pay>>

\* the loop is over: sort, and return the first three
SortAndReturn ==
    /\ strat.pc = "calculating"
    /\ strat.mask = 32
    /\ strat' = [strat EXCEPT !.pc = "answered",
                              !.strategies = SortStrategies(strat.strategies),
                              !.returned = Some(TopThree(SortStrategies(strat.strategies)))]
    /\ UNCHANGED <<env, now, store, issued, reqs, deals, sent, sh, fair, ev, pay>>

AnalyzeNext == ParseInput \/ CalculateMask \/ PushStrategy \/ SortAndReturn

SpecAnalyze == AnalyzeInit /\ [][AnalyzeNext]_vars

(***************************************************************************)
(* Properties of the draw route under concurrent requests.                 *)
(***************************************************************************)

Answer(r) == reqs[r].response[1]

\* request r was answered with the successful result of a draw on handId
Paid(r, handId) ==
    /\ reqs[r].pc = "done"
    /\ reqs[r].handId = handId
    /\ Answer(r).status = 200

AlreadyCompleted == "Hand already completed - cannot replay"
InvalidOrExpired == "Invalid or expired hand session"

\* C1: of the draw requests on one handle, however they interleave, at most
\* one is answered with the successful result (hand, evaluation, payout);
\* a win is never paid twice.
C1_AtMostOneDrawPays ==
    \A q \in Requests, r \in Requests :
        (q # r /\ Paid(q, reqs[q].handId)) => ~Paid(r, reqs[q].handId)

\* C1 refuted: two requests on one handle, both answered with the result
C1_PaidTwice ==
    \E q \in Requests, r \in Requests :
        q # r /\ Paid(q, reqs[q].handId) /\ Paid(r, reqs[q].handId)

\* a draw on handId has succeeded and marked the session completed
Completed(handId) ==
    \E q \in Requests : Paid(q, handId) /\ reqs[q].updated

\* this step receives draw request r, well formed, on a completed handle
ReceivesReplay(r) ==
    /\ reqs[r].pc = "idle"
    /\ reqs'[r].pc = "validated"
    /\ Completed(reqs'[r].handId)

\* this step answers request r, which validation rejected with message
Rejects(r, message) ==
    /\ reqs[r].pc = "validated"
    /\ reqs[r].validationError = Some(message)
    /\ reqs'[r].pc = "done"

\* the answer of a rejection: status 400 and the message, nothing else
Rejection(r, message) == Some(Response("draw", r, 400, ErrorBody(message)))

\* C2: once a draw on a handle has succeeded and marked the session
\* completed, every draw request received later on that handle is rejected
\* with the already-completed error, its answer carries no hand, evaluation
\* or balance, and the store is left as it was.
C2_ReplayRejected ==
    [][\A r \in Requests :
         /\ ReceivesReplay(r) =>
               /\ reqs'[r].validationError = Some(AlreadyCompleted)
               /\ store' = store
         /\ Rejects(r, AlreadyCompleted) =>
               /\ reqs'[r].response = Rejection(r, AlreadyCompleted)
               /\ store' = store]_vars

\* C2 as the code has it: the later request is rejected with the
\* already-completed error while the completed record is still stored, and
\* with the invalid-or-expired error once the record has expired or been
\* removed (reading an expired record of the in-memory store removes it);
\* neither answer carries a hand, an evaluation or a balance, and a stored
\* record is never changed.
C2_ReplayRejectedWhileStored ==
    [][\A r \in Requests :
         /\ ReceivesReplay(r) =>
               LET got == getSession(store, reqs'[r].handId)
               IN  IF got.result # None
                   THEN /\ reqs'[r].validationError = Some(AlreadyCompleted)
                        /\ store' = store
                   ELSE /\ reqs'[r].validationError = Some(InvalidOrExpired)
                        /\ store' = got.store
         /\ \A message \in {AlreadyCompleted, InvalidOrExpired} :
               Rejects(r, message) =>
                 /\ reqs'[r].response = Rejection(r, message)
                 /\ store' = store]_vars

\* a replay was answered with the already-completed error
C2_ReplayAnswered ==
    \E r \in Requests :
        /\ reqs[r].pc = "done"
        /\ Completed(reqs[r].handId)
        /\ reqs[r].response = Rejection(r, AlreadyCompleted)

(***************************************************************************)
(* Properties of a round: commitment, deck and final hand.                 *)
(***************************************************************************)
\* the stored record of a handle, as a set of at most one session
Stored(handId) ==
    LET got == getSession(store, handId)
    IN  {got.result[k] : k \in 1..Len(got.result)}

\* hash(seed + ":" + nonce)
CommitmentOf(seed, nonce) == Sha256Hex(seed \o <<":">> \o NumberToString(nonce))

\* C4: the commitment deal returned is hash(seed + ":" + nonce) of the seed
\* and nonce stored in the session, and a successful draw reveals that seed
\* and nonce: verify(revealed seed, revealed nonce, commitment) is true for
\* every completed round.
C4_CommitmentBindsReveal ==
    \A handId \in DOMAIN deals :
        /\ \A session \in Stored(handId) :
              deals[handId].seedCommitment = CommitmentOf(session.seed, session.nonce)
        /\ \A r \in Requests :
              Paid(r, handId) =>
                /\ verifySeedCommitment(Answer(r).body.seed, Answer(r).body.nonce,
                                        deals[handId].seedCommitment)
                /\ \A session \in Stored(handId) :
                      /\ Answer(r).body.seed = session.seed
                      /\ Answer(r).body.nonce = session.nonce

\* a round completed with the largest nonce: its reveal verifies
C4_RoundVerified ==
    \E r \in Requests :
        /\ Paid(r, reqs[r].handId)
        /\ Answer(r).body.nonce = MaxNonce
        /\ env.isKVAvailable
        /\ verifySeedCommitment(Answer(r).body.seed, Answer(r).body.nonce,
                                deals[reqs[r].handId].seedCommitment)

\* what an auditor recomputes from a seed and a nonce:
\* seededShuffle(createDeck(), seed + ":" + nonce)
AuditDecks ==
    [seed \in Seeds, nonce \in Nonces |->
       seededShuffleDeck(createDeck, seed \o <<":">> \o NumberToString(nonce))]

\* how many of the positions before p (1-based) are not held
UnheldBefore(items, p) == Cardinality({q \in 1..(p - 1) : ~items[q].truthy})

\* the hand that keeps the held cards of dealt and gives the k-th unheld
\* position the deck card at index 5 + k - 1
ExpectedHand(dealt, deck, items) ==
    [p \in 1..5 |-> IF items[p].truthy THEN dealt[p]
                    ELSE deck[5 + UnheldBefore(items, p) + 1]]

\* the deck, seed and nonce of a stored session stay what they are
DeckKept ==
    \A handId \in DOMAIN deals :
        \A before \in Stored(handId) : \A after \in Stored(handId)' :
            /\ after.fullDeck = before.fullDeck
            /\ after.seed = before.seed
            /\ after.nonce = before.nonce

\* every stored deck is the auditor's deck for the session's own seed and
\* nonce, and the deck recomputed from a reveal holds the dealt cards at
\* 0..4 and the replacement cards from 5 on, in the order they were consumed
DeckAudited ==
    \A handId \in DOMAIN deals :
        /\ \A session \in Stored(handId) :
              session.fullDeck = AuditDecks[session.seed, session.nonce]
        /\ \A r \in Requests :
              Paid(r, handId) =>
                LET audit == AuditDecks[Answer(r).body.seed, Answer(r).body.nonce]
                IN  /\ deals[handId].hand = SubSeq(audit, 1, 5)
                    /\ Answer(r).body.hand =
                         ExpectedHand(SubSeq(audit, 1, 5), audit, reqs[r].held.items)

\* C5: the deck stored at deal time is seededShuffle(createDeck(),
\* seed + ":" + nonce) for the session's own seed and nonce and never
\* changes; the deck recomputed from the revealed seed and nonce has the 5
\* dealt cards at positions 0..4 and the replacement cards of the final
\* hand at positions 5 and above, in the order they were consumed.
C5_DeckIsTheSeededShuffle ==
    DeckAudited /\ [][DeckAudited' /\ DeckKept]_vars

\* a round completed with every card replaced, its session still stored
C5_AllReplaced ==
    \E r \in Requests :
        /\ Paid(r, reqs[r].handId)
        /\ Stored(reqs[r].handId) # {}
        /\ \A p \in 1..5 : ~reqs[r].held.items[p].truthy

\* C10: the final hand of a successful draw keeps the dealt card at every
\* held position and gives the unheld positions, in increasing order, the
\* deck cards at indices 5, 6, 7, ... of the stored deck; it is a function
\* of the stored session and the hold selection alone.
C10_FinalHand ==
    \A r \in Requests :
        Paid(r, reqs[r].handId) =>
          \A session \in Stored(reqs[r].handId) :
              Answer(r).body.hand =
                ExpectedHand(session.dealtCards, session.fullDeck, reqs[r].held.items)

\* a successful draw that held the first card and replaced cards after it
C10_HeldAndReplaced ==
    \E r \in Requests :
        /\ Paid(r, reqs[r].handId)
        /\ Stored(reqs[r].handId) # {}
        /\ reqs[r].held.items[1].truthy
        /\ Cardinality({p \in 1..5 : ~reqs[r].held.items[p].truthy}) >= 2

(***************************************************************************)
(* What the responses expose.                                              *)
(***************************************************************************)
\* every response the state holds: the last one of the deal and debug
\* routes, and the answer of every draw request
Responses ==
    {sent[k] : k \in 1..Len(sent)}
        \cup UNION {{reqs[r].response[k] : k \in 1..Len(reqs[r].response)} :
                      r \in Requests}

\* the handle a response is about, as a set of at most one handle
About(response) ==
    IF response.route = "deal"
    THEN (IF response.status = 200 THEN {response.body.handId} ELSE {})
    ELSE IF response.route = "draw" /\ IsTruthyString(reqs[response.req].handId)
    THEN {reqs[response.req].handId}
    ELSE {}

\* the body carries the seed, the nonce, the deck or a deck card at index
\* 5 or above of the session
Exposes(body, session) ==
    \/ DOMAIN body \cap {"fullDeck", "deck", "session", "shuffleSeed"} # {}
    \/ "seed" \in DOMAIN body /\ body.seed = session.seed
    \/ "nonce" \in DOMAIN body /\ body.nonce = session.nonce
    \/ /\ "hand" \in DOMAIN body
       /\ \E k \in 1..Len(body.hand), m \in 6..Len(session.fullDeck) :
             body.hand[k] = session.fullDeck[m]

\* C3: the deal response of a handle holds the handle, the first 5 cards of
\* the shuffled deck, the new balance and the commitment, and nothing else;
\* until a draw on the handle has succeeded, no response about the handle
\* and no error or debug response carries its seed, its nonce or a deck card
\* at index 5 or above.
C3_SecretsKeptUntilDraw ==
    \A handId \in DOMAIN deals : \A session \in Stored(handId) :
        /\ DOMAIN deals[handId] = {"handId", "hand", "balance", "seedCommitment"}
        /\ deals[handId].handId = handId
        /\ deals[handId].hand = SubSeq(session.fullDeck, 1, 5)
        /\ deals[handId].seedCommitment = CommitmentOf(session.seed, session.nonce)
        /\ (\A r \in Requests : ~Paid(r, handId)) =>
              \A response \in Responses :
                  About(response) \subseteq {handId} => ~Exposes(response.body, session)

\* a dealt handle no draw has succeeded on, a draw request on it that was
\* refused, and the debug route answering
C3_RefusedAndDebugged ==
    \E handId \in DOMAIN deals :
        /\ \A r \in Requests : ~Paid(r, handId)
        /\ \E r \in Requests :
              reqs[r].pc = "done" /\ reqs[r].handId = handId /\ Answer(r).status # 200
        /\ \E response \in Responses : response.route = "debug" /\ response.status = 200

(***************************************************************************)
(* Properties of the commitment.                                           *)
(***************************************************************************)
\* C6: a commitment verifies against the seed and nonce it was made for,
\* and against no other pair (the hash taken as collision-free).
C6_VerifyIffSamePair ==
    fair # <<>> /\ fair.verdict # None =>
        (fair.verdict[1] <=> (fair.seed2 = fair.seed /\ fair.nonce2 = fair.nonce))

\* a pair refused although its seed and nonce, run together, read the same
\* as the committed pair's
C6_NearMissRefused ==
    /\ fair # <<>>
    /\ fair.verdict = Some(FALSE)
    /\ fair.seed \o NumberToString(fair.nonce)
         = fair.seed2 \o NumberToString(fair.nonce2)

(***************************************************************************)
(* Properties of the shuffles.                                             *)
(***************************************************************************)
\* the seeded shuffle has returned and nothing was called since
SeededReturned ==
    /\ sh # <<>>
    /\ sh.pc = "idle"
    /\ sh.fn = "seededShuffleDeck"
    /\ sh.out # None

\* the operational shuffle has returned and nothing was called since
RandomReturned ==
    /\ sh # <<>>
    /\ sh.pc = "idle"
    /\ sh.fn = "shuffleDeck"
    /\ sh.out # None

\* C7: an invocation of the seeded shuffle on the ordered deck returns the
\* card order the first invocation with the same key returned, whatever
\* was called in between.
C7_SameKeySameOrder ==
    SeededReturned /\ sh.key = sh.first[1].key => sh.out[1] = sh.first[1].out

\* the last of MaxCalls calls returned the order of an earlier call with
\* its key
C7_RepeatedKey ==
    /\ SeededReturned
    /\ sh.calls = MaxCalls
    /\ sh.key = sh.first[1].key
    /\ sh.key # <<>>
    /\ sh.out[1] = sh.first[1].out
    /\ sh.out[1] # createDeck

\* state <- (state * 1103515245 + 12345) mod 2^31, in exact integers
ExactLcgNext(state) ==
    Mod2p31(BigAddInt(BigMul(state, BigFromInt(LcgMultiplier)), LcgIncrement))

\* swap position i with position state mod (i + 1)
ExactStep(st) ==
    LET next == ExactLcgNext(st.seedNum)
        j    == BigToInt(next) % (st.i + 1)
    IN  [deckCopy |-> Swap(st.deckCopy, st.i, j), seedNum |-> next, i |-> st.i - 1]

RECURSIVE ExactLoop(_)
ExactLoop(st) == IF st.i > 0 THEN ExactLoop(ExactStep(st)) ELSE st.deckCopy

\* the permutation of the stated constants: the key folded with
\* h <- 31 * h + charCode wrapped to 32 bits, its absolute value, then the
\* exact steps for i = 51 down to 1
ExactDecks ==
    [key \in ShuffleKeys |-> ExactLoop(ShuffleStart(createDeck, key))]

\* C8: the seeded shuffle returns, for every key, the deck order the stated
\* constants define in exact integer arithmetic.
C8_ExactPermutation ==
    SeededReturned => sh.out[1] = ExactDecks[sh.key]

\* the seeded shuffle returned a deck for a key of a deal
C8_DealKeyShuffled ==
    SeededReturned /\ sh.key \in DealKeys

Count(deck, card) == Cardinality({k \in 1..Len(deck) : deck[k] = card})

Cards(deck) == {deck[k] : k \in 1..Len(deck)}

\* 52 cards, each (rank, suit) pair exactly once
IsFullDeck(deck) ==
    /\ Len(deck) = 52
    /\ Cardinality(Cards(SUITS)) = 4
    /\ Cardinality(Cards(RANKS)) = 13
    /\ \A suit \in Cards(SUITS), rank \in Cards(RANKS) :
          Cardinality({k \in 1..Len(deck) :
                         deck[k].suit = suit /\ deck[k].rank = rank}) = 1

\* the same cards, each as often
IsPermutation(deck, input) ==
    /\ Len(deck) = Len(input)
    /\ \A card \in Cards(deck) \cup Cards(input) : Count(deck, card) = Count(input, card)

\* the deck of every deal of the model is a full deck, the input permuted
DealDecksFull ==
    \A key \in DOMAIN ShuffledDecks :
        IsFullDeck(ShuffledDecks[key]) /\ IsPermutation(ShuffledDecks[key], createDeck)

\* C9: createDeck returns 52 cards, each of the 13 x 4 (rank, suit) pairs
\* once; the deck of either shuffle is a permutation of the input at every
\* iteration and at the return; the deck of every deal has 52 unique cards.
C9_DecksArePermutations ==
    /\ IsFullDeck(createDeck)
    /\ DealDecksFull
    /\ sh # <<>> /\ sh.fn # "none" =>
          /\ IsPermutation(sh.st.deckCopy, createDeck)
          /\ sh.out # None => IsFullDeck(sh.out[1]) /\ IsPermutation(sh.out[1], createDeck)

\* both shuffles have returned a deck in another order than the input's
C9_BothShuffled ==
    /\ RandomReturned
    /\ sh.out[1] # createDeck
    /\ sh.first # None
    /\ sh.first[1].out # createDeck

(***************************************************************************)
(* Properties of the rejected requests.                                    *)
(***************************************************************************)
\* this step refuses draw request r, or finds the error it will be refused
\* with
RejectedStep(r) ==
    /\ reqs'[r] # reqs[r]
    /\ \/ reqs'[r].validationError # None
       \/ reqs'[r].pc = "done" /\ reqs'[r].response[1].status # 200

\* the record of handId in the in-memory store is older than the expiry
ExpiredInMemory(handId) ==
    /\ handId \in DOMAIN store.sessions
    /\ now - store.sessions[handId].timestamp > SESSION_EXPIRY_MS

\* C11: a draw request that is rejected leaves the session store as it was:
\* no session is added, removed or modified, no completed flag is set.
C11_RejectedLeavesStore ==
    [][\A r \in Requests : RejectedStep(r) => store' = store]_vars

\* C11 as the code has it: a rejected draw request adds and modifies no
\* session and sets no completed flag; the one change it can make is that
\* the in-memory store, on access, removes the record of the request's own
\* handle when that record is older than the expiry.
C11_RejectedRemovesOnlyExpired ==
    [][\A r \in Requests :
         RejectedStep(r) =>
           \/ store' = store
           \/ /\ ExpiredInMemory(reqs'[r].handId)
              /\ store' = [store EXCEPT !.sessions = Without(@, reqs'[r].handId)]]_vars

\* a draw was refused as invalid or expired and the expired record of its
\* handle is gone from the in-memory store, its timer still pending
C11_ExpiredRefused ==
    \E r \in Requests :
        /\ reqs[r].response = Rejection(r, InvalidOrExpired)
        /\ reqs[r].handId \in DOMAIN deals
        /\ reqs[r].handId \notin DOMAIN store.sessions
        /\ \E t \in store.timers : t.handId = reqs[r].handId

\* the body of draw request r has a handId or a held array the route
\* refuses: handId missing or no string, held no array of 5 booleans
Malformed(r) ==
    \/ ~IsTruthyString(reqs[r].handId)
    \/ ~reqs[r].held.isArray
    \/ Len(reqs[r].held.items) # 5
    \/ \E k \in 1..Len(reqs[r].held.items) : reqs[r].held.items[k].typeof # "boolean"

\* the handle of draw request r was never given out by a deal
UnknownHandle(r) == ~Malformed(r) /\ reqs[r].handId \notin DOMAIN deals

SessionNotFound == "Session not found"

\* C12: a draw request is answered with status 400 when its handId or held
\* array is malformed, with status 404 when its handId is unknown to the
\* session store, and with a message of its own when the session is
\* already completed or expired.
C12_RejectionStatus ==
    \A r \in Requests :
        reqs[r].pc = "done" =>
          /\ Malformed(r) => Answer(r).status = 400
          /\ UnknownHandle(r) => Answer(r).status = 404
          /\ (~Malformed(r) /\ ~UnknownHandle(r) /\ Answer(r).status # 200) =>
                Answer(r).body.error \in {AlreadyCompleted, InvalidOrExpired, SessionNotFound}

\* a well-formed draw request on a handle no deal gave out was answered
C12_UnknownHandleAnswered ==
    \E r \in Requests : reqs[r].pc = "done" /\ UnknownHandle(r)

(***************************************************************************)
(* Properties of the deal route.                                           *)
(***************************************************************************)
\* this step is the deal route answering a body with this bet and balance
DealStep(bet, balance) ==
    \E seed \in Seeds, nonce \in Nonces : Deal(bet, balance, seed, nonce)

\* bet is an integer in 1..5
ValidBet(bet) ==
    /\ bet.typeof = "number"
    /\ ~bet.nan
    /\ \E n \in 1..5 : bet.twice = 2 * n

\* balance and bet are numbers and balance < bet
Below(balance, bet) ==
    /\ balance.typeof = "number" /\ ~balance.nan
    /\ bet.typeof = "number" /\ ~bet.nan
    /\ balance.twice < bet.twice

\* balance and bet are numbers and balance >= bet
Covers(balance, bet) ==
    /\ balance.typeof = "number" /\ ~balance.nan
    /\ bet.typeof = "number" /\ ~bet.nan
    /\ balance.twice >= bet.twice

\* C13: a deal request is rejected with status 400, and stores no session,
\* whenever bet is not an integer in 1..5 or balance < bet; a deal is
\* accepted only when bet is an integer in 1..5 and balance >= bet.
C13_DealValidation ==
    [][\A bet \in Bets, balance \in Balances :
         DealStep(bet, balance) =>
           /\ (~ValidBet(bet) \/ Below(balance, bet)) =>
                 /\ sent'[1].status = 400
                 /\ store' = store
                 /\ issued' = issued
           /\ sent'[1].status = 200 => ValidBet(bet) /\ Covers(balance, bet)]_vars

\* a deal was accepted whose new balance is no number
C13_DealtOnNoBalance ==
    /\ sent # None
    /\ sent[1].route = "deal"
    /\ sent[1].status = 200
    /\ sent[1].body.balance = NaN
    /\ sent[1].body.handId \in DOMAIN deals

(***************************************************************************)
(* Properties of the life of a session.                                    *)
(***************************************************************************)
\* this step receives draw request r, well formed, on handId
Receives(r, handId) ==
    /\ reqs[r].pc = "idle"
    /\ reqs'[r].pc = "validated"
    /\ reqs'[r].handId = handId

\* C14: no transition leaves COMPLETED or EXPIRED: the completed flag of a
\* stored session is never set back to false, and once the session of a
\* dealt handle has expired (the store returns none for it) the store never
\* returns one for it again and no draw received on it passes validation.
C14_NoWayBack ==
    [][\A handId \in DOMAIN deals :
         /\ \A before \in Stored(handId) : \A after \in Stored(handId)' :
               before.completed => after.completed
         /\ Stored(handId) = {} =>
               /\ Stored(handId)' = {}
               /\ \A r \in Requests :
                     Receives(r, handId) => reqs'[r].validationError # None]_vars

\* the key-value store holds a session written when the hour since its
\* creation had passed
C14_WrittenAfterExpiry ==
    \E handId \in DOMAIN deals : \E session \in Stored(handId) :
        /\ env.isKVAvailable
        /\ session.completed
        /\ store.kv[SessionKey(handId)].expireAt - SESSION_EXPIRY_MS
              >= session.timestamp + SESSION_EXPIRY_MS

\* the records the store holds for handId, read or not, as a set of at most
\* one session
Held(handId) ==
    IF env.isKVAvailable
    THEN {JSONparse(store.kv[k].value) : k \in DOMAIN store.kv \cap {SessionKey(handId)}}
    ELSE {store.sessions[h] : h \in DOMAIN store.sessions \cap {handId}}

\* more than one hour has passed since the session was created
PastTheHour(session) == now - session.timestamp > SESSION_EXPIRY_MS

Values(hand) == {getRankValue(hand[k].rank) : k \in 1..Len(hand)}

Suited(hand) == \A k, m \in 1..Len(hand) : hand[k].suit = hand[m].suit

\* five distinct consecutive values, or exactly A-2-3-4-5
Run(hand) ==
    /\ Cardinality(Values(hand)) = 5
    /\ \/ \A a, b \in Values(hand) : a - b <= 4
       \/ Values(hand) = {14, 2, 3, 4, 5}

\* the ranks the hand holds exactly n cards of
OfAKind(hand, n) ==
    {rank \in {hand[k].rank : k \in 1..Len(hand)} :
        Cardinality({k \in 1..Len(hand) : hand[k].rank = rank}) = n}

\* the rank of the first rule of the list that the hand matches
RuleRank(hand) ==
    IF Suited(hand) /\ Run(hand) /\ {13, 14} \subseteq Values(hand) THEN "ROYAL_FLUSH"
    ELSE IF Suited(hand) /\ Run(hand) THEN "STRAIGHT_FLUSH"
    ELSE IF OfAKind(hand, 4) # {} THEN "FOUR_OF_A_KIND"
    ELSE IF OfAKind(hand, 3) # {} /\ OfAKind(hand, 2) # {} THEN "FULL_HOUSE"
    ELSE IF Suited(hand) THEN "FLUSH"
    ELSE IF Run(hand) THEN "STRAIGHT"
    ELSE IF OfAKind(hand, 3) # {} THEN "THREE_OF_A_KIND"
    ELSE IF Cardinality(OfAKind(hand, 2)) = 2 THEN "TWO_PAIR"
    ELSE IF Cardinality(OfAKind(hand, 2)) = 1 /\ OfAKind(hand, 2) \subseteq {"J", "Q", "K", "A"}
      THEN "JACKS_OR_BETTER"
    ELSE "NOTHING"

RanksOf(hand) == {hand[k].rank : k \in 1..Len(hand)}

\* C16: for every hand of five distinct cards evaluateHand returns the rank
\* of the first matching rule in the order ROYAL_FLUSH (flush and straight
\* with both Ace and King), STRAIGHT_FLUSH, FOUR_OF_A_KIND, FULL_HOUSE,
\* FLUSH, STRAIGHT, THREE_OF_A_KIND, TWO_PAIR, JACKS_OR_BETTER (one pair of
\* J, Q, K or A), else NOTHING, a straight being five distinct consecutive
\* values or exactly A-2-3-4-5: the suited wheel is a STRAIGHT_FLUSH, a
\* single pair of tens or lower is NOTHING, and Q-K-A-2-3 is no straight.
C16_FirstMatchingRule ==
    ev # <<>> /\ ev.pc # "dealt" =>
        /\ ev.rank = RuleRank(ev.hand)
        /\ (Suited(ev.hand) /\ RanksOf(ev.hand) = {"A", "2", "3", "4", "5"}
                => ev.rank = "STRAIGHT_FLUSH")
        /\ (OfAKind(ev.hand, 2) \in {{RANKS[n]} : n \in 1..9}
                /\ Cardinality(RanksOf(ev.hand)) = 4 => ev.rank = "NOTHING")
        /\ (RanksOf(ev.hand) = {"Q", "K", "A", "2", "3"}
                => ev.rank \in {"NOTHING", "FLUSH"})

\* the suited wheel was evaluated
C16_SuitedWheelRanked ==
    /\ ev # <<>>
    /\ ev.pc = "ranked"
    /\ Suited(ev.hand)
    /\ RanksOf(ev.hand) = {"A", "2", "3", "4", "5"}
    /\ ev.rank = "STRAIGHT_FLUSH"

\* the 0-based positions at which the hand holds one of the cards
PositionsOf(hand, cards) == {k - 1 : k \in {m \in 1..Len(hand) : hand[m] \in cards}}

\* the cards the hand holds at the 0-based positions
CardsAt(hand, positions) == {hand[p + 1] : p \in positions}

\* C17: for every hand and every permutation of its positions evaluateHand
\* returns the same rank, and the winning positions of the permuted hand are
\* the image of the original winning positions under the permutation: they
\* follow the cards to their new places.  (Every permutation is a chain of
\* exchanges of neighbours, and every chain is taken.)
C17_OrderIndependent ==
    [][ev.pc = "marked" /\ ev'.pc = "marked" =>
          /\ SeqToSet(ev'.hand) = SeqToSet(ev.hand)
          /\ ev'.rank = ev.rank
          /\ SeqToSet(ev'.winning)
                = PositionsOf(ev'.hand, CardsAt(ev.hand, SeqToSet(ev.winning)))]_vars

\* three of a kind handed over with the three cards apart
C17_TripsApart ==
    /\ ev # <<>>
    /\ ev.pc = "marked"
    /\ ev.rank = "THREE_OF_A_KIND"
    /\ ev.winning = <<0, 2, 4>>

\* the 0-based positions of the cards of the ranks the hand holds n cards of
PositionsOfAKind(hand, n) ==
    {k - 1 : k \in {m \in 1..Len(hand) : hand[m].rank \in OfAKind(hand, n)}}

\* C18: getWinningCardIndices(hand, evaluateHand(hand)) is all five
\* positions for FLUSH, STRAIGHT, STRAIGHT_FLUSH, ROYAL_FLUSH and FULL_HOUSE;
\* exactly the positions of the matching rank(s) for FOUR_OF_A_KIND (4
\* positions), THREE_OF_A_KIND (3), TWO_PAIR (4) and JACKS_OR_BETTER (2); and
\* empty for NOTHING.
C18_WinningPositions ==
    ev # <<>> /\ ev.pc = "marked" =>
        LET positions == SeqToSet(ev.winning)
        IN  /\ Len(ev.winning) = Cardinality(positions)
            /\ ev.rank \in {"FLUSH", "STRAIGHT", "STRAIGHT_FLUSH", "ROYAL_FLUSH", "FULL_HOUSE"}
                   => positions = 0..4
            /\ ev.rank = "FOUR_OF_A_KIND"
                   => positions = PositionsOfAKind(ev.hand, 4) /\ Cardinality(positions) = 4
            /\ ev.rank = "THREE_OF_A_KIND"
                   => positions = PositionsOfAKind(ev.hand, 3) /\ Cardinality(positions) = 3
            /\ ev.rank = "TWO_PAIR"
                   => positions = PositionsOfAKind(ev.hand, 2) /\ Cardinality(positions) = 4
            /\ ev.rank = "JACKS_OR_BETTER"
                   => positions = PositionsOfAKind(ev.hand, 2) /\ Cardinality(positions) = 2
            /\ ev.rank = "NOTHING" => positions = {}

\* two pairs marked around the fifth card
C18_TwoPairMarked ==
    /\ ev # <<>>
    /\ ev.pc = "marked"
    /\ ev.rank = "TWO_PAIR"
    /\ ev.winning = <<0, 1, 3, 4>>

(***************************************************************************)
(* Properties of the pay table.                                            *)
(***************************************************************************)
\* the multipliers of the ranks that pay alike at every bet
FixedMultiplier ==
    [STRAIGHT_FLUSH |-> 50, FOUR_OF_A_KIND |-> 25, FULL_HOUSE |-> 9, FLUSH |-> 6,
     STRAIGHT |-> 4, THREE_OF_A_KIND |-> 3, TWO_PAIR |-> 2, JACKS_OR_BETTER |-> 1,
     NOTHING |-> 0]

StatedMultiplier(rank, bet) ==
    IF rank = "ROYAL_FLUSH" THEN (IF bet = 5 THEN 800 ELSE 250) ELSE FixedMultiplier[rank]

\* C19: the multiplier is 800 for ROYAL_FLUSH at bet 5 and 250 for
\* ROYAL_FLUSH at every other bet; for every other rank it is the fixed value
\* 50, 25, 9, 6, 4, 3, 2, 1, 0 whatever the bet; the payout is multiplier x
\* bet, so NOTHING pays 0 at every bet, and every cell of the displayed pay
\* table and of the printed one, for the bets 1..5, is multiplier x bet.
C19_PayTable ==
    pay # <<>> =>
        /\ pay.pc # "asked" => pay.multiplier = StatedMultiplier(pay.rank, pay.bet)
        /\ pay.evaluation # None =>
              /\ pay.evaluation[1].rank = pay.rank
              /\ pay.evaluation[1].multiplier = StatedMultiplier(pay.rank, pay.bet)
              /\ pay.evaluation[1].payout = StatedMultiplier(pay.rank, pay.bet) * pay.bet
              /\ pay.rank = "NOTHING" => pay.evaluation[1].payout = 0
        /\ pay.pc = "shown" =>
              /\ pay.shown # None <=> pay.bet \in 1..5 /\ pay.rank # "NOTHING"
              /\ pay.shown # None =>
                     pay.shown[1] = StatedMultiplier(pay.rank, pay.bet) * pay.bet
              /\ pay.printed = pay.shown

\* the royal flush at the maximum bet was looked up: 4000 credits
C19_RoyalAtMaxBet ==
    /\ pay # <<>>
    /\ pay.pc = "shown"
    /\ pay.rank = "ROYAL_FLUSH"
    /\ pay.bet = 5
    /\ pay.evaluation[1].payout = 4000
    /\ pay.shown = <<4000>>

(***************************************************************************)
(* Properties of the strategy engine.                                      *)
(***************************************************************************)
\* the 52 cards of a fresh deck, numbered: the rank and the suit of a number
\* and the number of a card
FreshDeck == 0..(Len(SUITS) * Len(RANKS) - 1)

Face(n) == [rank |-> RANKS[(n % Len(RANKS)) + 1], suit |-> SUITS[(n \div Len(RANKS)) + 1]]

NumberOf(card) == CHOOSE n \in FreshDeck : Face(n).rank = card.rank /\ Face(n).suit = card.suit

HeldNumbers(hand, holdIndices) == {NumberOf(hand[i + 1]) : i \in SeqToSet(holdIndices)}

\* the remaining pool: the fresh deck minus the held cards
Pool(hand, holdIndices) == FreshDeck \ HeldNumbers(hand, holdIndices)

\* the subsets of k elements of a set of numbers, each built in ascending order
RECURSIVE KSubsets(_, _)
KSubsets(S, k) ==
    IF k = 0 THEN {{}}
    ELSE UNION {{T \cup {a} : a \in {n \in S : \A t \in T : t < n}} : T \in KSubsets(S, k - 1)}

\* the cards of a set of numbers as a hand, in ascending order
RECURSIVE HandOfNumbers(_)
HandOfNumbers(S) ==
    IF S = {} THEN <<>>
    ELSE LET least == CHOOSE n \in S : \A m \in S : n <= m
         IN  <<Face(least)>> \o HandOfNumbers(S \ {least})

\* the sum of the multipliers of the final hands the held cards make with
\* each of the draws
SumOfMultipliers(held, draws) ==
    LET ranked == {<<draw, RuleRank(HandOfNumbers(held \cup draw))>> : draw \in draws}
        Times(rank) == PAY_TABLE[rank] * Cardinality({final \in ranked : final[2] = rank})
    IN  Times("ROYAL_FLUSH") + Times("STRAIGHT_FLUSH") + Times("FOUR_OF_A_KIND")
          + Times("FULL_HOUSE") + Times("FLUSH") + Times("STRAIGHT")
          + Times("THREE_OF_A_KIND") + Times("TWO_PAIR") + Times("JACKS_OR_BETTER")
          + Times("NOTHING")

RoyalDrawHeld ==
    /\ strat # <<>>
    /\ strat.holdIndices = <<0, 1, 2, 3>>
    /\ {strat.hand[k].rank : k \in 1..4} = {"A", "K", "Q", "J"}
    /\ \A k \in 1..4 : strat.hand[k].suit = strat.hand[1].suit
    /\ strat.hand[5].suit # strat.hand[1].suit

\* C21: when the four cards of a royal flush draw are held and an off-suit
\* card is discarded, the enumeration runs against a pool of 47 cards and
\* yields exactly 47 single-card draws, of which exactly one completes a
\* royal flush.
C21_FortySevenDraws ==
    RoyalDrawHeld /\ strat.pc = "returned" =>
        /\ Len(RemainingDeck(strat.hand, strat.holdIndices)) = 47
        /\ strat.totalCombinations = 47
        /\ strat.outcomeCounts["ROYAL_FLUSH"] = 1

\* the discarded card was drawn again to the royal flush draw
C21_DiscardDrawnAgain ==
    /\ RoyalDrawHeld
    /\ strat.pc = "enumerating"
    /\ strat.yielded > 0
    /\ Draws[strat.hand, strat.holdIndices][strat.yielded]
          = <<generateDeck[NumberOf(strat.hand[5]) + 1]>>

(***************************************************************************)
(* Properties of analyzeHand.                                              *)
(***************************************************************************)

\* the bitmask of a list of held positions
MaskOf(holdIndices) ==
    LET Bit(i) == IF i \in SeqToSet(holdIndices) THEN 2 ^ i ELSE 0
    IN  Bit(0) + Bit(1) + Bit(2) + Bit(3) + Bit(4)

\* the expected value of a mask of the hand under analysis, as a fraction
ExpectedValue(mask) == strat.evs[mask].ev

Exceeds(a, b) == a.num * b.den > b.num * a.den

\* mask m comes before mask n: a higher expected value, or an equal one and
\* the lower bitmask
Precedes(m, n) ==
    \/ Exceeds(ExpectedValue(m), ExpectedValue(n))
    \/ /\ ~Exceeds(ExpectedValue(n), ExpectedValue(m))
       /\ m < n

ReturnedMasks == [k \in 1..Len(strat.returned[1]) |-> MaskOf(strat.returned[1][k].holdIndices)]

Tied(m, n) == m # n /\ ~Exceeds(ExpectedValue(m), ExpectedValue(n))
                    /\ ~Exceeds(ExpectedValue(n), ExpectedValue(m))

TieAmongReturned ==
    /\ strat # <<>> /\ strat.pc = "answered"
    /\ \E i \in 1..3, j \in 1..3 : Tied(ReturnedMasks[i], ReturnedMasks[j])

\* the call of analyzeHand has ended, with a return or a throw
CallEnded == strat # <<>> /\ strat.pc \in {"answered", "threw"}

\* C23: analyzeHand given a hand whose length is not 5 fails with the error
\* the hand evaluator raises for a hand that does not contain exactly 5
\* cards, and returns no strategies.
C23_InputSizeError ==
    CallEnded /\ Len(strat.handInput) # 5 =>
        /\ strat.pc = "threw"
        /\ strat.thrown = Some(HandSizeError)
        /\ strat.returned = None

\* a hand of four cards ended the call with a TypeError, after strategies
\* had been pushed
C23_TypeErrorOnShortHand ==
    /\ CallEnded
    /\ Len(strat.handInput) = 4
    /\ strat.thrown = Some(TypeError)
    /\ strat.strategies # <<>>

\* the count of each rank among the final hands of the mask of a pushed
\* strategy
CountsOf(strategy) == strat.evs[MaskOf(strategy.holdIndices)].outcomeCounts

WinningRanks == SeqToSet(PayTableKeys) \ {"NOTHING"}

\* C27: the most likely outcome reported for a hold mask is the rank other
\* than NOTHING with the highest count among the final hands enumerated for
\* the mask, and it is NOTHING only when every one of those final hands is
\* NOTHING.
C27_MostLikelyWinningRank ==
    strat # <<>> /\ strat.pc \in {"calculating", "pushing", "answered", "threw"} =>
        \A k \in 1..Len(strat.strategies) :
            LET strategy == strat.strategies[k]
                counts   == CountsOf(strategy)
            IN  IF \A rank \in WinningRanks : counts[rank] = 0
                THEN strategy.mostLikelyOutcome = getHandNameOfStrategy("NOTHING")
                ELSE \E rank \in WinningRanks :
                        /\ strategy.mostLikelyOutcome = getHandNameOfStrategy(rank)
                        /\ counts[rank] > 0
                        /\ \A other \in WinningRanks : counts[other] <= counts[rank]

\* a strategy was pushed for a mask of which most final hands are NOTHING,
\* reported with a winning rank
C27_NothingOutnumbers ==
    /\ strat # <<>> /\ strat.pc \in {"calculating", "pushing", "answered", "threw"}
    /\ \E k \in 1..Len(strat.strategies) :
           LET strategy == strat.strategies[k]
               counts   == CountsOf(strategy)
           IN  /\ \A rank \in WinningRanks : counts["NOTHING"] > counts[rank]
               /\ strategy.mostLikelyOutcome # getHandNameOfStrategy("NOTHING")

\* a strategy was pushed of which every final hand is NOTHING
NothingOnly ==
    /\ strat # <<>> /\ strat.pc \in {"calculating", "pushing", "answered", "threw"}
    /\ \E k \in 1..Len(strat.strategies) :
           /\ \A rank \in WinningRanks : CountsOf(strat.strategies[k])[rank] = 0
           /\ strat.strategies[k].mostLikelyOutcome = getHandNameOfStrategy("NOTHING")

(***************************************************************************)
(* The multipliers of the strategy engine against those of the pay table.  *)
(***************************************************************************)

Replaced(r) == Cardinality({p \in 1..Len(reqs[r].held.items) : ~reqs[r].held.items[p].truthy})

\* C24: a session's cursor is 5 when deal creates the session and advances
\* by one for each card the draw consumes: after a successful draw that
\* replaces u cards the cursor of the stored session is 5 + u; it never
\* exceeds 52.
C24_CursorAdvances ==
    /\ \A handId \in HandIds : \A session \in Stored(handId) :
           /\ session.nextCardIndex >= 5
           /\ session.nextCardIndex <= Len(session.fullDeck)
           /\ (\A r \in Requests : ~Paid(r, handId)) => session.nextCardIndex = 5
    /\ \A r \in Requests :
           Paid(r, reqs[r].handId) /\ reqs[r].updated =>
               \A session \in Stored(reqs[r].handId) :
                   session.nextCardIndex = 5 + Replaced(r)

\* a draw replaced all five cards and completed the session, whose cursor
\* is still 5
C24_CursorLeftAtFive ==
    \E r \in Requests :
        /\ Paid(r, reqs[r].handId) /\ reqs[r].updated
        /\ Replaced(r) = 5
        /\ \E session \in Stored(reqs[r].handId) :
               session.completed /\ session.nextCardIndex = 5

NotEnoughCards == "Not enough cards in deck"

\* C25: for every session deal created and every hold selection of 5
\* booleans the draw never reaches the branch that answers 'Not enough
\* cards in deck': the highest deck index it consumes is at most 9, below
\* the 52 cards of the deck.
C25_DeckNeverExhausted ==
    \A r \in Requests :
        /\ reqs[r].pc = "done" => Answer(r).body # ErrorBody(NotEnoughCards)
        /\ reqs[r].pc \in {"loaded", "updating"} =>
              LET session == reqs[r].session[1]
                  built   == BuildFinalHand(session, reqs[r].held)
              IN  /\ ~built.exhausted
                  /\ built.nextCardIndex = 5 + Replaced(r)
                  /\ built.nextCardIndex - 1 <= 9
                  /\ built.nextCardIndex - 1 < Len(session.fullDeck)
                  /\ Len(session.fullDeck) = 52

\* a draw that replaces all five cards has consumed the deck up to index 9
C25_IndexNineConsumed ==
    \E r \in Requests :
        /\ reqs[r].pc = "updating"
        /\ Replaced(r) = 5
        /\ BuildFinalHand(reqs[r].session[1], reqs[r].held).nextCardIndex = 10
        /\ BuildFinalHand(reqs[r].session[1], reqs[r].held).finalHand[5]
             = reqs[r].session[1].fullDeck[10]

(***************************************************************************)
(* Properties of the completing write.                                     *)
(***************************************************************************)

\* request r ends updateSession and is answered in this step
Commits(r) == reqs[r].pc = "updating" /\ reqs'[r].pc = "done"

\* no step changes a field other than completed of a session that stays
\* stored
FieldsKept ==
    \A handId \in HandIds :
        \A before \in Stored(handId) : \A after \in (Stored(handId))' :
            /\ after = [before EXCEPT !.completed = after.completed]
            /\ before.completed => after.completed

\* the step that ends updateSession writes the session the draw read with
\* completed set, or nothing when updateSession found no session
CompletedAlone ==
    \A r \in Requests :
        Commits(r) =>
            IF reqs[r].updating = None
            THEN store' = store
            ELSE \A after \in (Stored(reqs[r].handId))' :
                     after = [reqs[r].session[1] EXCEPT !.completed = TRUE]

\* C28: marking a session completed changes only its completed flag: after
\* a successful draw the session's handId, fullDeck, dealtCards, bet, seed,
\* nonce and creation timestamp are what deal stored, and updateSession on a
\* handle that is not in the store creates no record.
C28_OnlyCompletedChanges == [][FieldsKept /\ CompletedAlone]_vars

\* a draw completed a session some time after the deal: the record is
\* stored, completed, with the cards and the timestamp of the deal
C28_CompletedLater ==
    \E r \in Requests :
        /\ Paid(r, reqs[r].handId) /\ reqs[r].updated
        /\ \E session \in Stored(reqs[r].handId) :
               /\ session.completed
               /\ session.timestamp < now
               /\ session.dealtCards = deals[reqs[r].handId].hand
               /\ session.bet = 2

\* a draw was answered whose updateSession found no session: nothing is
\* stored under the handle
UpdateFoundNothing ==
    \E r \in Requests :
        /\ Paid(r, reqs[r].handId) /\ ~reqs[r].updated
        /\ Stored(reqs[r].handId) = {}

(***************************************************************************)
(* Properties of the balances the routes return.                           *)
(***************************************************************************)

\* a deal that is served returns the balance of the request less the bet,
\* a number that is not negative
DealCharged ==
    \A bet \in PlayBets, balance \in PlayBalances :
        Deal(bet, balance, PlaySeed, 0) /\ sent'[1].status = 200 =>
            /\ sent'[1].body.balance = Minus(balance, bet)
            /\ ~sent'[1].body.balance.nan
            /\ sent'[1].body.balance.twice >= 0

\* a draw that is served returns the final hand built from the stored deck,
\* its evaluation at the stored bet, and the balance of the request plus
\* the payout
DrawPaid ==
    \A r \in Requests :
        Commits(r) =>
            /\ Stored(reqs[r].handId) # {}
            /\ \A session \in Stored(reqs[r].handId) :
                 LET body       == reqs'[r].response[1].body
                     finalHand  == ExpectedHand(session.dealtCards, session.fullDeck,
                                                reqs[r].held.items)
                     rank       == RuleRank(finalHand)
                     multiplier == StatedMultiplier(rank, session.bet)
                 IN  /\ reqs'[r].response[1].status = 200
                     /\ body.hand = finalHand
                     /\ body.evaluation.rank = rank
                     /\ body.evaluation.multiplier = multiplier
                     /\ body.evaluation.payout = multiplier * session.bet
                     /\ body.balance = reqs[r].balance + multiplier * session.bet

\* C29: a successful deal returns balance = request balance - bet, which is
\* never negative, and a successful draw returns balance = request balance
\* + multiplier(rank, b) x b where b is the bet stored in the session at
\* deal time; the evaluation returned is that of the final hand built from
\* the stored deck.
C29_BalancesReturned == [][DealCharged /\ DrawPaid]_vars

\* a round on a bet of 1 credit out of a balance of 5 was won with a pair of
\* aces: the deal returned 4 and the draw, asked with a balance of 5,
\* returned 6
C29_WonOnOneCredit ==
    \E r \in Requests :
        /\ Paid(r, reqs[r].handId)
        /\ deals[reqs[r].handId].balance = Num(4)
        /\ \E session \in Stored(reqs[r].handId) : session.bet = 1
        /\ Answer(r).body.evaluation.rank = "JACKS_OR_BETTER"
        /\ Answer(r).body.evaluation.payout = 1
        /\ Answer(r).body.balance = 6

(***************************************************************************)
(* Properties of the end of a session.                                     *)
(***************************************************************************)

\* C26: every session stored by deal is eventually removed from the session
\* store, whether or not a draw is ever made on it: the expiry timer or the
\* store's time to live destroys the record, so the stored sessions do not
\* accumulate.
C26_EventuallyRemoved ==
    \A n \in 1..MaxHands : (Held(HandId(n)) # {}) ~> (Held(HandId(n)) = {})

\* a session was dealt and removed, and no draw request was ever made
C26_RemovedUndrawn ==
    /\ HandId(1) \in DOMAIN deals
    /\ Held(HandId(1)) = {}
    /\ \A r \in Requests : reqs[r].pc = "idle"
    /\ now >= SESSION_EXPIRY_MS

\* a session was completed by a draw and removed
RemovedCompleted ==
    /\ \E r \in Requests : Paid(r, HandId(1)) /\ reqs[r].updated
    /\ Held(HandId(1)) = {}

=============================================================================
